---- MODULE Spec2Model ----
(***************************************************************************)
(* Geometric mark detection of OCRAnalysis: the Rectangle Reconstructor of *)
(* extractPDFElements and the Mark Classifier / Crop Mark Detector of      *)
(* stripBleedMarks (src/src/OCRAnalysis.cpp).                              *)
(*                                                                         *)
(* Numbers.  The code works on doubles in PDF points.  The model works on  *)
(* integers in units of 1/Pt point; every input coordinate is a whole      *)
(* number of points, so the code's halving "(a + b) / 2.0" is exact in     *)
(* model units.  Angles are in thousandths of a degree.  Vectors are       *)
(* sequences; the C++ index k is position k+1.                             *)
(***************************************************************************)
EXTENDS Integers, Sequences, FiniteSets, TLC

VARIABLES
  pc,            \* position inside stripBleedMarks
  rawLines,      \* lineResult.lines, as extractLinesFromPDF returns them
  rawRects,      \* rectResult.rectangles, as extractRectanglesFromPDF returns them
  rawTexts,      \* textResult.regions
  rawImages,     \* imageResult.images
  allElements,   \* PDFElements returned by extractPDFElements
  step1,         \* rectanglesToRemove, linesToRemove, filteredRectangles, filteredLines
  foundMarks,    \* history: cropMarks as the pair search left it
  cropMarks,     \* std::vector<CropMark> of stripBleedMarks
  result,        \* PDFElements returned by stripBleedMarks
  mapPc,         \* position inside createRelativeMap / solveCropRectFromMatches
  elements,      \* const PDFElements &elements of createRelativeMap
  boundsMode,    \* RenderBoundsMode boundsMode
  markToFile,    \* const std::string &markToFile
  ocrWords,      \* what ocrDetectWords returns for the target image
  mapResult,     \* RelativeMapResult result
  matches,       \* std::vector<MatchedPair> matches
  cropRect,      \* cv::Rect cropRect, the out-parameter of the solver
  solved,        \* what solveCropRectFromMatches returned ("none" before the call)
  targetImage,   \* cv::Mat targetImage: its cols and rows
  canvas,        \* cv::Mat canvas: the part of targetImage it was cloned from
  sortPc,        \* position around sortByPosition
  rendered,      \* PNGRenderResult::elements
  unsorted,      \* PNGRenderResult::elements as they were when sortByPosition was called
  analyzers,     \* the OCRAnalysis objects: m_tesseract, m_config, m_initialized
  engines,       \* the tesseract::TessBaseAPI objects
  ocrCall,       \* the last call on an OCRAnalysis object and what it returned
  nullDeref      \* a call went through a null m_tesseract

stripVars == <<pc, rawLines, rawRects, rawTexts, rawImages, allElements, step1,
               foundMarks, cropMarks, result>>

mapVars == <<mapPc, elements, boundsMode, markToFile, ocrWords, mapResult,
             matches, cropRect, solved, targetImage, canvas>>

sortVars == <<sortPc, rendered, unsorted>>

ocrVars == <<analyzers, engines, ocrCall, nullDeref>>

vars == <<stripVars, mapVars, sortVars, ocrVars>>

---------------------------------------------------------------------------
(* Units and arithmetic helpers *)

\* model units per PDF point: the code halves sums of coordinates
Pt == 2

\* model units per degree
Deg == 1000

Abs(a) == IF a < 0 THEN -a ELSE a
Min(a, b) == IF a < b THEN a ELSE b
Max(a, b) == IF a > b THEN a ELSE b

RECURSIVE Gcd(_, _)
Gcd(a, b) == IF b = 0 THEN a ELSE Gcd(b, a % b)

\* floor of the square root
ISqrt(n) == CHOOSE r \in 0..(n + 1) : r * r <= n /\ (r + 1) * (r + 1) > n

SetMin(S) == CHOOSE a \in S : \A b \in S : a <= b
SetMax(S) == CHOOSE a \in S : \A b \in S : a >= b

\* the elements of a finite set of integers, in increasing order
RECURSIVE SortedSeq(_)
SortedSeq(S) ==
  IF S = {} THEN <<>>
  ELSE LET m == SetMin(S)
       IN  <<m>> \o SortedSeq(S \ {m})

\* the vector s without the positions in drop, order kept
WithoutPositions(s, drop) ==
  LET keep == SortedSeq({k \in 1..Len(s) : k \notin drop})
  IN  [k \in 1..Len(keep) |-> s[keep[k]]]

SeqRange(s) == {s[k] : k \in 1..Len(s)}

\* std::atan2(dy, dx) * 180.0 / M_PI for the slopes the inputs use, rounded to
\* 1/Deg degree.  The table holds the first-quadrant angle of the reduced
\* slope <<|dy|, |dx|>>; the quadrant is resolved as atan2 does.
AtanTable ==
  (<<0, 1>> :> 0) @@ (<<1, 20>> :> 2862) @@ (<<1, 10>> :> 5711) @@
  (<<1, 1>> :> 45000) @@ (<<10, 1>> :> 84289) @@ (<<20, 1>> :> 87138) @@
  (<<1, 0>> :> 90000)

Atan2Deg(dy, dx) ==
  IF dy = 0 /\ dx = 0 THEN 0
  ELSE LET g == Gcd(Abs(dy), Abs(dx))
           t == AtanTable[<<Abs(dy) \div g, Abs(dx) \div g>>]
       IN  IF dx >= 0
           THEN (IF dy >= 0 THEN t ELSE -t)
           ELSE (IF dy >= 0 THEN 180 * Deg - t ELSE -(180 * Deg - t))

---------------------------------------------------------------------------
(* The Primitive Extractor's output records *)

minLength == 5 * Pt
angleTolerance == 5 * Deg

\* LineExtractorOutputDev::extractLinesFromPath builds a PDFLine from two
\* transformed endpoints (given here in points)
PDFLine(px1, py1, px2, py2) ==
  LET dx == (px2 - px1) * Pt
      dy == (py2 - py1) * Pt
      angle == Atan2Deg(Abs(dy), Abs(dx))
  IN  [pageNumber |-> 1,
       x1 |-> px1 * Pt, y1 |-> py1 * Pt, x2 |-> px2 * Pt, y2 |-> py2 * Pt,
       lineWidth |-> 1 * Pt,
       length |-> ISqrt(dx * dx + dy * dy),
       isHorizontal |-> angle < angleTolerance,
       isVertical |-> angle > 90 * Deg - angleTolerance]

\* a PDFRectangle as RectangleExtractorOutputDev records it (given in points)
PDFRectangle(px, py, pw, ph) ==
  [pageNumber |-> 1, x |-> px * Pt, y |-> py * Pt,
   width |-> pw * Pt, height |-> ph * Pt,
   lineWidth |-> 1 * Pt, filled |-> FALSE, stroked |-> TRUE]

---------------------------------------------------------------------------
(* extractPDFElements: Rectangle Reconstructor and rectangle-edge line filter *)

minGap == 10 * Pt
spanTolerance == 10 * Pt
duplicateTolerance == 5 * Pt
edgeTolerance == 2 * Pt
cropMarkMaxSize == 30 * Pt

MidX(l) == (l.x1 + l.x2) \div 2
MidY(l) == (l.y1 + l.y2) \div 2
LineMinX(l) == Min(l.x1, l.x2)
LineMaxX(l) == Max(l.x1, l.x2)
LineMinY(l) == Min(l.y1, l.y2)
LineMaxY(l) == Max(l.y1, l.y2)

\* the rectangle spanned by the midpoints of two horizontal and two vertical lines
SyntheticRect(h1, h2, v1, v2) ==
  LET minX == Min(MidX(v1), MidX(v2))
      maxX == Max(MidX(v1), MidX(v2))
      minY == Min(MidY(h1), MidY(h2))
      maxY == Max(MidY(h1), MidY(h2))
  IN  [pageNumber |-> h1.pageNumber, x |-> minX, y |-> minY,
       width |-> maxX - minX, height |-> maxY - minY,
       lineWidth |-> 1 * Pt, filled |-> FALSE, stroked |-> TRUE]

\* "Simple case": exactly 2 horizontal and 2 vertical lines on one page
SimpleCase(H, V, rects) ==
  IF Len(H) = 2 /\ Len(V) = 2
     /\ H[1].pageNumber = H[2].pageNumber
     /\ H[1].pageNumber = V[1].pageNumber
     /\ H[1].pageNumber = V[2].pageNumber
  THEN Append(rects, SyntheticRect(H[1], H[2], V[1], V[2]))
  ELSE rects

\* the four lines pass the gap and span tests of the general search
FormsRectangle(h1, h2, v1, v2) ==
  LET r == SyntheticRect(h1, h2, v1, v2)
      minX == r.x
      maxX == r.x + r.width
      minY == r.y
      maxY == r.y + r.height
  IN  /\ h1.pageNumber = h2.pageNumber
      /\ ~(Abs(MidY(h1) - MidY(h2)) < minGap)
      /\ v1.pageNumber = h1.pageNumber
      /\ ~(Abs(MidX(v1) - MidX(v2)) < minGap)
      /\ LineMinX(h1) <= minX + spanTolerance /\ LineMaxX(h1) >= maxX - spanTolerance
      /\ LineMinX(h2) <= minX + spanTolerance /\ LineMaxX(h2) >= maxX - spanTolerance
      /\ LineMinY(v1) <= minY + spanTolerance /\ LineMaxY(v1) >= maxY - spanTolerance
      /\ LineMinY(v2) <= minY + spanTolerance /\ LineMaxY(v2) >= maxY - spanTolerance

\* "Check if we already have this rectangle"
IsDuplicate(rects, rect) ==
  \E k \in 1..Len(rects) :
    /\ rects[k].pageNumber = rect.pageNumber
    /\ Abs(rects[k].x - rect.x) < duplicateTolerance
    /\ Abs(rects[k].y - rect.y) < duplicateTolerance
    /\ Abs(rects[k].width - rect.width) < duplicateTolerance
    /\ Abs(rects[k].height - rect.height) < duplicateTolerance

\* the quadruples (h1, h2, v1, v2) that reach "Found a rectangle!", in the
\* order the nested h1 < h2, v1 < v2 loops visit them; the quadruple is coded
\* as the number ((h1 * n + h2) * n + v1) * n + v2, which grows in loop order
FoundQuads(H, V) ==
  LET n == Max(Len(H), Len(V)) + 1
  IN  SortedSeq({((h1 * n + h2) * n + v1) * n + v2 :
                   <<h1, h2, v1, v2>> \in
                     {q \in (1..Len(H)) \X (1..Len(H)) \X (1..Len(V)) \X (1..Len(V)) :
                        /\ q[1] < q[2] /\ q[3] < q[4]
                        /\ FormsRectangle(H[q[1]], H[q[2]], V[q[3]], V[q[4]])}})

\* the rectangle of a coded quadruple
QuadRect(H, V, code) ==
  LET n == Max(Len(H), Len(V)) + 1
  IN  SyntheticRect(H[code \div (n * n * n)], H[(code \div (n * n)) % n],
                    V[(code \div n) % n], V[code % n])

\* result.rectangles after the found rectangles from position k on were
\* appended, each unless it duplicates one already in the list
RECURSIVE GeneralSearch(_, _, _, _, _)
GeneralSearch(H, V, quads, k, rects) ==
  IF k > Len(quads) THEN rects
  ELSE LET rect == QuadRect(H, V, quads[k])
       IN  GeneralSearch(H, V, quads, k + 1,
             IF ~IsDuplicate(rects, rect) THEN Append(rects, rect) ELSE rects)

IsHorizontalLine(l) == l.isHorizontal
IsVerticalLine(l) == ~l.isHorizontal /\ l.isVertical

\* result.rectangles after the Reconstructor has run over lineResult.lines
Reconstruct(lines, rects) ==
  LET H == SelectSeq(lines, IsHorizontalLine)
      V == SelectSeq(lines, IsVerticalLine)
  IN  GeneralSearch(H, V, FoundQuads(H, V), 1, SimpleCase(H, V, rects))

\* the line lies on an edge of a rectangle larger than a crop mark
IsPartOfRectangle(line, rects) ==
  \E k \in 1..Len(rects) :
    LET rect == rects[k]
        rectLeft == rect.x
        rectRight == rect.x + rect.width
        rectTop == rect.y
        rectBottom == rect.y + rect.height
    IN  /\ rect.pageNumber = line.pageNumber
        /\ ~(rect.width <= cropMarkMaxSize /\ rect.height <= cropMarkMaxSize)
        /\ \/ /\ line.isHorizontal
              /\ \/ Abs(MidY(line) - rectTop) < edgeTolerance
                 \/ Abs(MidY(line) - rectBottom) < edgeTolerance
              /\ LineMinX(line) >= rectLeft - edgeTolerance
              /\ LineMaxX(line) <= rectRight + edgeTolerance
           \/ /\ line.isVertical
              /\ \/ Abs(MidX(line) - rectLeft) < edgeTolerance
                 \/ Abs(MidX(line) - rectRight) < edgeTolerance
              /\ LineMinY(line) >= rectTop - edgeTolerance
              /\ LineMaxY(line) <= rectBottom + edgeTolerance

\* the PDFElements extractPDFElements returns for one page
ExtractPDFElements(lines, rects, texts, images, page) ==
  LET rectangles == Reconstruct(lines, rects)
      drop == {k \in 1..Len(lines) : IsPartOfRectangle(lines[k], rectangles)}
      graphicLines == WithoutPositions(lines, drop)
  IN  [success |-> TRUE, errorMessage |-> <<>>,
       textLines |-> texts, textLineCount |-> Len(texts),
       images |-> images, imageCount |-> Len(images),
       rectangles |-> rectangles, rectangleCount |-> Len(rects),
       graphicLines |-> graphicLines, graphicLineCount |-> Len(graphicLines),
       pageX |-> 0, pageY |-> 0,
       pageWidth |-> page[1] * Pt, pageHeight |-> page[2] * Pt]

---------------------------------------------------------------------------
(* stripBleedMarks STEP 1: Mark Classifier *)

yTolerance == 2 * Pt
connectionTolerance == 2 * Pt
edgeMargin == 50 * Pt
cornerMargin == 100 * Pt

\* rectangle j joins the group that rectangle i opens
SameY(rect1, rect2) == Abs(rect1.y - rect2.y) < yTolerance

\* mutant: the top-edge exemption is missing
NearEdge_BottomOnly(groupY, pageHeight) == groupY > pageHeight - edgeMargin

\* "Skip groups near edges": the test on the Y of the group's first rectangle
NearEdge(groupY, pageHeight) ==
  groupY < edgeMargin \/ groupY > pageHeight - edgeMargin

\* "Only keep groups with 2 or more rectangles" that are not near an edge
KeepGroup(group, rects, pageHeight) ==
  Len(group) >= 2 /\ ~NearEdge(rects[group[1]].y, pageHeight)

\* the grouping loop from rectangle i on; processed holds the positions taken.
\* Yields rectangleGroups, each group a vector of positions.
RECURSIVE GroupsFrom(_, _, _, _)
GroupsFrom(rects, i, processed, pageHeight) ==
  IF i > Len(rects) THEN <<>>
  ELSE IF i \in processed THEN GroupsFrom(rects, i + 1, processed, pageHeight)
  ELSE LET members == {j \in (i + 1)..Len(rects) :
                         j \notin processed /\ SameY(rects[i], rects[j])}
           group == <<i>> \o SortedSeq(members)
       IN  (IF KeepGroup(group, rects, pageHeight) THEN <<group>> ELSE <<>>)
           \o GroupsFrom(rects, i + 1, processed \cup {i} \cup members, pageHeight)

\* the combined bounding box of a group
GroupBox(group, rects) ==
  LET R == {rects[group[k]] : k \in 1..Len(group)}
  IN  [minX |-> SetMin({r.x : r \in R}),
       maxX |-> SetMax({r.x + r.width : r \in R}),
       minY |-> SetMin({r.y : r \in R}),
       maxY |-> SetMax({r.y + r.height : r \in R})]

\* mutant: the top-left corner is not protected
NearAnyCorner_NoTopLeft(line, pageWidth, pageHeight) ==
  \/ LineMaxX(line) > pageWidth - cornerMargin /\ LineMinY(line) < cornerMargin
  \/ LineMinX(line) < cornerMargin /\ LineMaxY(line) > pageHeight - cornerMargin
  \/ LineMaxX(line) > pageWidth - cornerMargin
     /\ LineMaxY(line) > pageHeight - cornerMargin

\* "Check if line is near any corner"
NearAnyCorner(line, pageWidth, pageHeight) ==
  LET nearTopLeftCorner ==
        LineMinX(line) < cornerMargin /\ LineMinY(line) < cornerMargin
      nearTopRightCorner ==
        LineMaxX(line) > pageWidth - cornerMargin /\ LineMinY(line) < cornerMargin
      nearBottomLeftCorner ==
        LineMinX(line) < cornerMargin /\ LineMaxY(line) > pageHeight - cornerMargin
      nearBottomRightCorner ==
        LineMaxX(line) > pageWidth - cornerMargin
        /\ LineMaxY(line) > pageHeight - cornerMargin
  IN  nearTopLeftCorner \/ nearTopRightCorner
      \/ nearBottomLeftCorner \/ nearBottomRightCorner

\* lineInYRange and lineInXRange against a group's box
LineInRange(line, box) ==
  /\ ~(LineMaxY(line) < box.minY - connectionTolerance
       \/ LineMinY(line) > box.maxY + connectionTolerance)
  /\ ~(LineMaxX(line) < box.minX - connectionTolerance
       \/ LineMinX(line) > box.maxX + connectionTolerance)

\* the line is inserted into linesToRemove while the groups are scanned
RemoveLine(line, groups, all) ==
  /\ ~NearAnyCorner(line, all.pageWidth, all.pageHeight)
  /\ \E g \in 1..Len(groups) : LineInRange(line, GroupBox(groups[g], all.rectangles))

\* STEP 1 of stripBleedMarks
RemoveBleedMarks(all) ==
  LET groups == GroupsFrom(all.rectangles, 1, {}, all.pageHeight)
      rectanglesToRemove ==
        UNION {SeqRange(groups[g]) : g \in 1..Len(groups)}
      linesToRemove ==
        {k \in 1..Len(all.graphicLines) : RemoveLine(all.graphicLines[k], groups, all)}
  IN  [rectangleGroups |-> groups,
       rectanglesToRemove |-> rectanglesToRemove,
       linesToRemove |-> linesToRemove,
       filteredRectangles |-> WithoutPositions(all.rectangles, rectanglesToRemove),
       filteredLines |-> WithoutPositions(all.graphicLines, linesToRemove)]

---------------------------------------------------------------------------
(* stripBleedMarks STEP 2: Crop Mark Detector *)

perpendicularTolerance == 5 * Deg
proximityTolerance == 50 * Pt
minCropSize == 100 * Pt

\* angle = fmod(abs(atan2(dy, dx) * 180 / pi), 180)
LineAngle(line) ==
  Abs(Atan2Deg(line.y2 - line.y1, line.x2 - line.x1)) % (180 * Deg)

IsPerpendicular(line1, line2) ==
  LET diff == Abs(LineAngle(line1) - LineAngle(line2))
      angleDiff == IF diff > 90 * Deg THEN 180 * Deg - diff ELSE diff
  IN  Abs(angleDiff - 90 * Deg) < perpendicularTolerance

\* boxSize: the larger side of the box around the four endpoints
BoxSize(line1, line2) ==
  Max(Max(LineMaxX(line1), LineMaxX(line2)) - Min(LineMinX(line1), LineMinX(line2)),
      Max(LineMaxY(line1), LineMaxY(line2)) - Min(LineMinY(line1), LineMinY(line2)))

\* denom of the two-line intersection; on whole coordinates |denom| < 1e-10
\* exactly when denom = 0
Denom(line1, line2) ==
  (line1.x1 - line1.x2) * (line2.y1 - line2.y2)
  - (line1.y1 - line1.y2) * (line2.x1 - line2.x2)

\* mutant: cropY is always the Y of the line taken as horizontal
CropY_HorizontalY(h, v) == MidY(h)

\* cropY from the line taken as horizontal (h) and the one taken as vertical (v)
CropY(h, v) ==
  LET horizY == MidY(h)
      vertMinY == LineMinY(v)
      vertMaxY == LineMaxY(v)
  IN  IF horizY >= vertMinY /\ horizY <= vertMaxY
      THEN (IF Abs(v.y1 - horizY) < Abs(v.y2 - horizY) THEN v.y1 ELSE v.y2)
      ELSE IF vertMinY > horizY THEN horizY
      ELSE vertMaxY

\* mutant: cropX is read from the line taken as horizontal
CropPoint_XFromHorizontal(line1, line2) ==
  IF Abs(line1.y2 - line1.y1) < Abs(line1.x2 - line1.x1)
  THEN [cropX |-> MidX(line1), cropY |-> CropY(line1, line2)]
  ELSE [cropX |-> MidX(line2), cropY |-> CropY(line2, line1)]

\* (cropX, cropY) recorded for a pair: "use the closest endpoints"
CropPoint(line1, line2) ==
  LET line1IsHorizontal ==
        Abs(line1.y2 - line1.y1) < Abs(line1.x2 - line1.x1)
  IN  IF line1IsHorizontal
      THEN [cropX |-> MidX(line2), cropY |-> CropY(line1, line2)]
      ELSE [cropX |-> MidX(line1), cropY |-> CropY(line2, line1)]

\* the pair (i, j) reaches cropMarks.push_back
IsCropMarkPair(line1, line2) ==
  /\ IsPerpendicular(line1, line2)
  /\ ~(BoxSize(line1, line2) > proximityTolerance)
  /\ ~(Abs(Denom(line1, line2)) = 0)

\* cropMarks after the i < j loops over filteredLines: a mark per pair that
\* passes, in loop order (the pair is coded as i * n + j, which grows in
\* loop order)
FindCropMarks(lines) ==
  LET n == Len(lines) + 1
      found == SortedSeq({i * n + j : <<i, j>> \in
                 {p \in (1..Len(lines)) \X (1..Len(lines)) :
                    p[1] < p[2] /\ IsCropMarkPair(lines[p[1]], lines[p[2]])}})
      Mark(i, j) ==
        LET p == CropPoint(lines[i], lines[j])
        IN  [line1Idx |-> i, line2Idx |-> j, cropX |-> p.cropX, cropY |-> p.cropY]
  IN  [k \in 1..Len(found) |-> Mark(found[k] \div n, found[k] % n)]

\* mutant: the quadrant is taken about the mean of the marks' points
Quadrant_AboutMean(mark, marks) ==
  LET RECURSIVE Sum(_, _)
      Sum(f, k) == IF k = 0 THEN 0 ELSE f[k] + Sum(f, k - 1)
      xs == [k \in 1..Len(marks) |-> marks[k].cropX]
      ys == [k \in 1..Len(marks) |-> marks[k].cropY]
  IN  <<Len(marks) * mark.cropX < Sum(xs, Len(marks)),
        Len(marks) * mark.cropY < Sum(ys, Len(marks))>>

\* the quadrant of a mark about the middle of the marks' bounding box:
\* <<isLeft, isTop>>
Quadrant(mark, marks) ==
  LET xs == {marks[k].cropX : k \in 1..Len(marks)}
      ys == {marks[k].cropY : k \in 1..Len(marks)}
  IN  <<2 * mark.cropX < SetMin(xs) + SetMax(xs),
        2 * mark.cropY < SetMin(ys) + SetMax(ys)>>

\* mark a replaces the current best b of quadrant q
Better(q, a, b) ==
  CASE q = <<TRUE, TRUE>>   -> a.cropX + a.cropY < b.cropX + b.cropY
    [] q = <<FALSE, TRUE>>  -> a.cropX - a.cropY > b.cropX - b.cropY
    [] q = <<TRUE, FALSE>>  -> a.cropY - a.cropX > b.cropY - b.cropX
    [] q = <<FALSE, FALSE>> -> a.cropX + a.cropY > b.cropX + b.cropY

\* the selection loop from mark k on; best maps a quadrant to the position of
\* its current pointer, 0 for nullptr
RECURSIVE BestFrom(_, _, _)
BestFrom(marks, k, best) ==
  IF k > Len(marks) THEN best
  ELSE LET q == Quadrant(marks[k], marks)
       IN  BestFrom(marks, k + 1,
             IF best[q] = 0 \/ Better(q, marks[k], marks[best[q]])
             THEN [best EXCEPT ![q] = k] ELSE best)

QuadrantOrder == << <<TRUE, TRUE>>, <<FALSE, TRUE>>, <<TRUE, FALSE>>, <<FALSE, FALSE>> >>

\* "Select the 4 corner-most crop marks"
SelectCorners(marks) ==
  IF Len(marks) > 4
  THEN LET best == BestFrom(marks, 1, [q \in SeqRange(QuadrantOrder) |-> 0])
           IsSet(q) == best[q] # 0
           chosen == SelectSeq(QuadrantOrder, IsSet)
       IN  [k \in 1..Len(chosen) |-> marks[best[chosen[k]]]]
  ELSE marks

\* mutant: only the first line of each mark is collected
CropBox_FirstLineOnly(marks) ==
  LET xs == {marks[k].cropX : k \in 1..Len(marks)}
      ys == {marks[k].cropY : k \in 1..Len(marks)}
  IN  [cropMinX |-> SetMin(xs), cropMinY |-> SetMin(ys),
       cropWidth |-> SetMax(xs) - SetMin(xs),
       cropHeight |-> SetMax(ys) - SetMin(ys),
       cropMarkLineIndices |-> {marks[k].line1Idx : k \in 1..Len(marks)}]

\* the crop box of the selected marks and the lines that form them
CropBox(marks) ==
  LET xs == {marks[k].cropX : k \in 1..Len(marks)}
      ys == {marks[k].cropY : k \in 1..Len(marks)}
  IN  [cropMinX |-> SetMin(xs), cropMinY |-> SetMin(ys),
       cropWidth |-> SetMax(xs) - SetMin(xs),
       cropHeight |-> SetMax(ys) - SetMin(ys),
       cropMarkLineIndices |->
         {marks[k].line1Idx : k \in 1..Len(marks)}
         \cup {marks[k].line2Idx : k \in 1..Len(marks)}]

\* cropMarks.size() < 4 after the pair search
Insufficient(marks) == Len(marks) < 4

\* mutant: only a surplus of marks is rejected
Ambiguous_SurplusOnly(marks) == Len(marks) > 4

\* cropMarks.size() != 4 after the corner reduction
Ambiguous(marks) == Len(marks) # 4

\* mutant: only the width is validated
TooSmall_WidthOnly(box) == box.cropWidth < minCropSize

TooSmall(box) == box.cropWidth < minCropSize \/ box.cropHeight < minCropSize

\* a default-constructed PDFElements
DefaultElements ==
  [success |-> FALSE, errorMessage |-> <<>>,
   textLines |-> <<>>, textLineCount |-> 0,
   images |-> <<>>, imageCount |-> 0,
   rectangles |-> <<>>, rectangleCount |-> 0,
   graphicLines |-> <<>>, graphicLineCount |-> 0,
   linesBoundingBoxX |-> 0, linesBoundingBoxY |-> 0,
   linesBoundingBoxWidth |-> 0, linesBoundingBoxHeight |-> 0,
   pageX |-> 0, pageY |-> 0, pageWidth |-> 0, pageHeight |-> 0]

\* an early "return result" with an error message
Failure(message) == [DefaultElements EXCEPT !.errorMessage = message]

\* mutant: the result is filled in without the copy of allElements
FinalResult_NoCopy(all, filteredRectangles, filteredLines, box) ==
  LET finalLines == WithoutPositions(filteredLines, box.cropMarkLineIndices)
  IN  [success |-> TRUE, errorMessage |-> <<>>,
       textLines |-> <<>>, textLineCount |-> 0,
       images |-> <<>>, imageCount |-> 0,
       rectangles |-> filteredRectangles,
       rectangleCount |-> Len(filteredRectangles),
       graphicLines |-> finalLines, graphicLineCount |-> Len(finalLines),
       linesBoundingBoxX |-> box.cropMinX, linesBoundingBoxY |-> box.cropMinY,
       linesBoundingBoxWidth |-> box.cropWidth,
       linesBoundingBoxHeight |-> box.cropHeight,
       pageX |-> box.cropMinX, pageY |-> box.cropMinY,
       pageWidth |-> box.cropWidth, pageHeight |-> box.cropHeight]

\* "Build final result"
FinalResult(all, filteredRectangles, filteredLines, box) ==
  LET finalLines == WithoutPositions(filteredLines, box.cropMarkLineIndices)
  IN  [success |-> TRUE, errorMessage |-> all.errorMessage,
       textLines |-> all.textLines, textLineCount |-> all.textLineCount,
       images |-> all.images, imageCount |-> all.imageCount,
       rectangles |-> filteredRectangles,
       rectangleCount |-> Len(filteredRectangles),
       graphicLines |-> finalLines, graphicLineCount |-> Len(finalLines),
       linesBoundingBoxX |-> box.cropMinX, linesBoundingBoxY |-> box.cropMinY,
       linesBoundingBoxWidth |-> box.cropWidth,
       linesBoundingBoxHeight |-> box.cropHeight,
       pageX |-> box.cropMinX, pageY |-> box.cropMinY,
       pageWidth |-> box.cropWidth, pageHeight |-> box.cropHeight]

---------------------------------------------------------------------------
(* createRelativeMap (src/src/create_relative_map.cpp)                       *)
(*                                                                           *)
(* Its inputs are whole numbers of points and pixels.  A quotient of the     *)
(* code is kept as the exact fraction [n, d] with d >= 0; d = 0 is the       *)
(* inf or NaN a division by zero produces.  A string is a sequence of        *)
(* one-character strings.                                                    *)

Rat(n, d) == [n |-> n, d |-> d]

\* std::tolower on the letters the texts use
ToLower(c) ==
  LET upper == <<"A", "B", "C", "D", "E", "F", "G", "H", "I", "J", "K", "L", "M",
                 "N", "O", "P", "Q", "R", "S", "T", "U", "V", "W", "X", "Y", "Z">>
      lower == <<"a", "b", "c", "d", "e", "f", "g", "h", "i", "j", "k", "l", "m",
                 "n", "o", "p", "q", "r", "s", "t", "u", "v", "w", "x", "y", "z">>
  IN  IF \E k \in 1..26 : upper[k] = c
      THEN lower[CHOOSE k \in 1..26 : upper[k] = c]
      ELSE c

\* std::isspace
IsSpace(c) == c \in {" ", "\t", "\n", "\r"}

KeptForMatch(c) == ~(IsSpace(c) \/ c = "_")

\* "Removes whitespace, lowercases, strips underscores"
normaliseForMatch(str) ==
  LET kept == SelectSeq(str, KeptForMatch)
  IN  [k \in 1..Len(kept) |-> ToLower(kept[k])]

\* hay.find(needle) != std::string::npos
Find(hay, needle) ==
  \E i \in 0..(Len(hay) - Len(needle)) :
    \A k \in 1..Len(needle) : hay[i + k] = needle[k]

\* "Skip text that is mostly underscores"
MostlyUnderscores(str) ==
  /\ str # <<>>
  /\ Cardinality({k \in 1..Len(str) : str[k] = "_"}) > Len(str) \div 2

\* a default-constructed RelativeMapResult
DefaultRelativeMapResult ==
  [success |-> FALSE, errorMessage |-> "",
   boundsX |-> 0, boundsY |-> 0, boundsWidth |-> 0, boundsHeight |-> 0,
   elements |-> <<>>]

\* the search with >= for >: the last of the largest, zero areas included
LargestByArea_LastOfEquals(areas) ==
  IF areas = <<>> THEN 0
  ELSE CHOOSE k \in 1..Len(areas) :
         /\ \A j \in 1..Len(areas) : areas[j] <= areas[k]
         /\ \A j \in (k + 1)..Len(areas) : areas[j] < areas[k]

\* the pointer the "area > largest" loop ends with: the position of the first
\* entry of the largest positive area, 0 for nullptr
LargestByArea(areas) ==
  IF \A k \in 1..Len(areas) : ~(areas[k] > 0) THEN 0
  ELSE CHOOSE k \in 1..Len(areas) :
         /\ \A j \in 1..Len(areas) : areas[j] <= areas[k]
         /\ \A j \in 1..(k - 1) : areas[j] < areas[k]

BoundsFound(minX, minY, maxX, maxY) ==
  [found |-> TRUE, errorMessage |-> "",
   minX |-> minX, minY |-> minY, maxX |-> maxX, maxY |-> maxY]

BoundsMissing(message) ==
  [found |-> FALSE, errorMessage |-> message,
   minX |-> 0, minY |-> 0, maxX |-> 0, maxY |-> 0]

\* bounds from the largest rectangle, else from the largest image
LargestRectangleBounds(el) ==
  LET r == LargestByArea([k \in 1..Len(el.rectangles) |->
                            el.rectangles[k].width * el.rectangles[k].height])
      i == LargestByArea([k \in 1..Len(el.images) |->
                            el.images[k].displayWidth * el.images[k].displayHeight])
  IN  IF r # 0
      THEN LET largestRect == el.rectangles[r]
               rectTopLeftY == largestRect.y
               rectBottomLeftY == rectTopLeftY + largestRect.height
           IN  BoundsFound(largestRect.x, el.pageHeight - rectBottomLeftY,
                           largestRect.x + largestRect.width,
                           el.pageHeight - rectTopLeftY)
      ELSE IF el.images # <<>>
      THEN (IF i # 0
            THEN BoundsFound(el.images[i].x, el.images[i].y,
                             el.images[i].x + el.images[i].displayWidth,
                             el.images[i].y + el.images[i].displayHeight)
            ELSE BoundsMissing("Could not find valid rectangle or image"))
      ELSE BoundsMissing("No rectangles or images found for USE_LARGEST_RECTANGLE mode")

\* the bounding box of the text lines alone
ElementBounds_TextOnly(el) ==
  LET T == {el.textLines[k].boundingBox : k \in 1..Len(el.textLines)}
  IN  IF T = {}
      THEN BoundsMissing("No elements found to create relative map")
      ELSE BoundsFound(SetMin({t.x : t \in T}), SetMin({t.y : t \in T}),
                       SetMax({t.x + t.width : t \in T}),
                       SetMax({t.y + t.height : t \in T}))

\* "Fall back to calculating bounding box from all elements"
ElementBounds(el) ==
  LET T == {el.textLines[k].boundingBox : k \in 1..Len(el.textLines)}
      I == {el.images[k] : k \in 1..Len(el.images)}
  IN  IF T = {} /\ I = {}
      THEN BoundsMissing("No elements found to create relative map")
      ELSE BoundsFound(
             SetMin({t.x : t \in T} \cup {i.x : i \in I}),
             SetMin({t.y : t \in T} \cup {i.y : i \in I}),
             SetMax({t.x + t.width : t \in T} \cup {i.x + i.displayWidth : i \in I}),
             SetMax({t.y + t.height : t \in T} \cup {i.y + i.displayHeight : i \in I}))

\* minX, minY, maxX, maxY as the three branches of the bounds selection set them
ReferenceBounds(el, mode) ==
  IF mode = "USE_LARGEST_RECTANGLE" THEN LargestRectangleBounds(el)
  ELSE IF el.linesBoundingBoxWidth > 0 /\ el.linesBoundingBoxHeight > 0
  THEN BoundsFound(el.linesBoundingBoxX, el.linesBoundingBoxY,
                   el.linesBoundingBoxX + el.linesBoundingBoxWidth,
                   el.linesBoundingBoxY + el.linesBoundingBoxHeight)
  ELSE ElementBounds(el)

\* the conversion of the box's corner, not of its centre
Relative_OfCorner(type, str, x, y, w, h, res) ==
  LET minX == res.boundsX
      minY == res.boundsY
      topLeftY == res.boundsHeight - (y - minY + h)
  IN  [type |-> type, text |-> str,
       relativeWidth |-> Rat(w, res.boundsWidth),
       relativeHeight |-> Rat(h, res.boundsHeight),
       relativeX |-> Rat(2 * (x - minX), 2 * res.boundsWidth),
       relativeY |-> Rat(2 * topLeftY, 2 * res.boundsHeight)]

\* the conversion without the turn of the Y axis
Relative_NoFlip(type, str, x, y, w, h, res) ==
  LET minX == res.boundsX
      minY == res.boundsY
  IN  [type |-> type, text |-> str,
       relativeWidth |-> Rat(w, res.boundsWidth),
       relativeHeight |-> Rat(h, res.boundsHeight),
       relativeX |-> Rat(2 * (x - minX) + w, 2 * res.boundsWidth),
       relativeY |-> Rat(2 * (y - minY) + h, 2 * res.boundsHeight)]

\* a box (x, y, w, h) as a RelativeElement; the Y axis is turned to the
\* top-left origin
Relative(type, str, x, y, w, h, res) ==
  LET minX == res.boundsX
      minY == res.boundsY
      topLeftY == res.boundsHeight - (y - minY + h)
  IN  [type |-> type, text |-> str,
       relativeWidth |-> Rat(w, res.boundsWidth),
       relativeHeight |-> Rat(h, res.boundsHeight),
       relativeX |-> Rat(2 * (x - minX) + w, 2 * res.boundsWidth),
       relativeY |-> Rat(2 * topLeftY + h, 2 * res.boundsHeight)]

IsRetainedText(t) == ~MostlyUnderscores(t.text)

\* result.elements: the retained text lines, then the images
RelativeElements(el, res) ==
  LET texts == SelectSeq(el.textLines, IsRetainedText)
  IN  [k \in 1..Len(texts) |->
         Relative("TEXT", texts[k].text, texts[k].boundingBox.x,
                  texts[k].boundingBox.y, texts[k].boundingBox.width,
                  texts[k].boundingBox.height, res)]
      \o [k \in 1..Len(el.images) |->
            Relative("IMAGE", <<>>, el.images[k].x, el.images[k].y,
                     el.images[k].displayWidth, el.images[k].displayHeight, res)]

\* containment with no floor on the length of the contained text
TextsMatch_AnyLength(normPdfText, normOcrText) ==
  \/ normPdfText = normOcrText
  \/ Find(normOcrText, normPdfText)
  \/ Find(normPdfText, normOcrText)

\* normPdfText against normOcrText: equal, or one holds the other
TextsMatch(normPdfText, normOcrText) ==
  \/ normPdfText = normOcrText
  \/ Len(normPdfText) >= 4 /\ Find(normOcrText, normPdfText)
  \/ Len(normOcrText) >= 4 /\ Find(normPdfText, normOcrText)

\* the MatchedPair of an element and an OCR word
MatchedPair(elem, ocrWord) ==
  [relCentreX |-> elem.relativeX, relCentreY |-> elem.relativeY,
   ocrCentreX |-> Rat(2 * ocrWord.x + ocrWord.width, 2),
   ocrCentreY |-> Rat(2 * ocrWord.y + ocrWord.height, 2)]

\* the positions in words of the OCR words that match the element
MatchingWords(elem, words) ==
  {w \in 1..Len(words) :
     TextsMatch(normaliseForMatch(elem.text), normaliseForMatch(words[w].text))}

\* the element reaches matches.push_back
YieldsPair(elem, words) ==
  /\ elem.type = "TEXT"
  /\ ~(Len(normaliseForMatch(elem.text)) < 2)
  /\ MatchingWords(elem, words) # {}

\* "Step 2: Match OCR words against known text from relative map"
MatchWords(elems, words) ==
  LET Matched(e) == YieldsPair(e, words)
      hits == SelectSeq(elems, Matched)
  IN  [k \in 1..Len(hits) |->
         MatchedPair(hits[k], words[SetMin(MatchingWords(hits[k], words))])]

---------------------------------------------------------------------------
(* solveCropRectFromMatches, on exact fractions *)

\* n / d in lowest terms
RatNorm(n, d) ==
  IF d = 0 THEN Rat(n, 0)
  ELSE LET g == Gcd(Abs(n), d) IN Rat(n \div g, d \div g)

RatAdd(a, b) == RatNorm(a.n * b.d + b.n * a.d, a.d * b.d)
RatSub(a, b) == RatNorm(a.n * b.d - b.n * a.d, a.d * b.d)
RatMul(a, b) == RatNorm(a.n * b.n, a.d * b.d)
RatDiv(a, b) ==
  IF b.n < 0 THEN RatNorm(-(a.n * b.d), a.d * (-b.n))
  ELSE RatNorm(a.n * b.d, a.d * b.n)
RatInt(k) == Rat(k, 1)
RatLess(a, b) == a.n * b.d < b.n * a.d

\* the cast to int alone: towards zero
Round_Truncate(a) ==
  IF a.n >= 0 THEN a.n \div a.d ELSE -((-a.n) \div a.d)

\* std::round: to the nearest integer, halves away from zero
Round(a) ==
  IF a.n >= 0 THEN (2 * a.n + a.d) \div (2 * a.d)
  ELSE -((2 * (-a.n) + a.d) \div (2 * a.d))

RECURSIVE RatSum(_, _)
RatSum(f, k) == IF k = 0 THEN RatInt(0) ELSE RatAdd(f[k], RatSum(f, k - 1))

\* std::abs(det) < 1e-10; the fractions of the model that are not 0 are far
\* larger than 1e-10
Singular(det) == det.n = 0

\* an out-parameter that is reset when no solution is found
SolveOutcome_ResetsRect(value, rect, residuals) ==
  [value |-> value,
   cropRect |-> IF value THEN rect ELSE [x |-> 0, y |-> 0, width |-> 0, height |-> 0],
   residualsSquared |-> residuals]

\* the value returned, the out-parameter as it is left, and the squares of the
\* residuals reported for the matches
SolveOutcome(value, rect, residuals) ==
  [value |-> value, cropRect |-> rect, residualsSquared |-> residuals]

solveCropRectFromMatches(ms, rect) ==
  IF Len(ms) < 2 THEN SolveOutcome(FALSE, rect, <<>>)
  ELSE
    LET n == RatInt(Len(ms))
        Over(F(_)) == RatSum([k \in 1..Len(ms) |-> F(ms[k])], Len(ms))
        RelX(m) == m.relCentreX
        RelX2(m) == RatMul(m.relCentreX, m.relCentreX)
        OcrX(m) == m.ocrCentreX
        RelXOcrX(m) == RatMul(m.relCentreX, m.ocrCentreX)
        RelY(m) == m.relCentreY
        RelY2(m) == RatMul(m.relCentreY, m.relCentreY)
        OcrY(m) == m.ocrCentreY
        RelYOcrY(m) == RatMul(m.relCentreY, m.ocrCentreY)
        sumRelX == Over(RelX)
        sumRelX2 == Over(RelX2)
        sumOcrX == Over(OcrX)
        sumRelXOcrX == Over(RelXOcrX)
        sumRelY == Over(RelY)
        sumRelY2 == Over(RelY2)
        sumOcrY == Over(OcrY)
        sumRelYOcrY == Over(RelYOcrY)
        detX == RatSub(RatMul(sumRelX2, n), RatMul(sumRelX, sumRelX))
        detY == RatSub(RatMul(sumRelY2, n), RatMul(sumRelY, sumRelY))
    IN  IF Singular(detX) THEN SolveOutcome(FALSE, rect, <<>>)
        ELSE IF Singular(detY) THEN SolveOutcome(FALSE, rect, <<>>)
        ELSE
          LET cropWidth ==
                RatDiv(RatSub(RatMul(sumRelXOcrX, n), RatMul(sumRelX, sumOcrX)), detX)
              cropX ==
                RatDiv(RatSub(RatMul(sumRelX2, sumOcrX),
                              RatMul(sumRelX, sumRelXOcrX)), detX)
              cropHeight ==
                RatDiv(RatSub(RatMul(sumRelYOcrY, n), RatMul(sumRelY, sumOcrY)), detY)
              cropY ==
                RatDiv(RatSub(RatMul(sumRelY2, sumOcrY),
                              RatMul(sumRelY, sumRelYOcrY)), detY)
              Residual(m) ==
                LET dx == RatSub(RatAdd(RatMul(m.relCentreX, cropWidth), cropX),
                                 m.ocrCentreX)
                    dy == RatSub(RatAdd(RatMul(m.relCentreY, cropHeight), cropY),
                                 m.ocrCentreY)
                IN  RatAdd(RatMul(dx, dx), RatMul(dy, dy))
          IN  IF RatLess(cropWidth, RatInt(10)) \/ RatLess(cropHeight, RatInt(10))
              THEN SolveOutcome(FALSE, rect, <<>>)
              ELSE SolveOutcome(TRUE,
                     [x |-> Round(cropX), y |-> Round(cropY),
                      width |-> Round(cropWidth), height |-> Round(cropHeight)],
                     [k \in 1..Len(ms) |-> Residual(ms[k])])

\* a default-constructed cv::Rect
DefaultRect == [x |-> 0, y |-> 0, width |-> 0, height |-> 0]

\* an empty cv::Mat
NoImage == [cols |-> 0, rows |-> 0]

\* canvas before it is assigned
NoCanvas == [kind |-> "none", rect |-> DefaultRect]

\* no call has been made on an OCRAnalysis object
NoCall ==
  [op |-> "none", obj |-> 0, returned |-> "", message |-> "", engineCalls |-> <<>>]

\* sortByPosition is not running and no OCRAnalysis object exists
OtherIdle ==
  /\ sortPc = "idle"
  /\ rendered = <<>>
  /\ unsorted = <<>>
  /\ analyzers = <<>>
  /\ engines = <<>>
  /\ ocrCall = NoCall
  /\ nullDeref = FALSE

\* createRelativeMap and the solver are not running
MapIdle ==
  /\ targetImage = NoImage
  /\ canvas = NoCanvas
  /\ mapPc = "idle"
  /\ elements = DefaultElements
  /\ boundsMode = "USE_CROP_MARKS"
  /\ markToFile = ""
  /\ ocrWords = <<>>
  /\ mapResult = DefaultRelativeMapResult
  /\ matches = <<>>
  /\ cropRect = DefaultRect
  /\ solved = "none"

---------------------------------------------------------------------------
(* The pages the Primitive Extractor may deliver *)

MaxExtra == 2
MaxRects == 3
MaxTicks == 1
MaxFrameRects == 2

PageSize == <<500, 700>>

RECURSIVE Flatten(_)
Flatten(ss) == IF ss = <<>> THEN <<>> ELSE Head(ss) \o Flatten(Tail(ss))

Reverse(s) == [k \in 1..Len(s) |-> s[Len(s) + 1 - k]]

\* the entries of pool at the positions in S, in pool order
Pick(pool, S) ==
  LET at == SortedSeq(S) IN [k \in 1..Len(at) |-> pool[at[k]]]

UpTo(pool, n) == {S \in SUBSET (1..Len(pool)) : Cardinality(S) <= n}

\* an L-shaped crop mark: a horizontal and a vertical arm leaving (cx, cy)
LMark(cx, cy, hx, vy, len) ==
  <<PDFLine(cx, cy, cx + hx * len, cy), PDFLine(cx, cy, cx, cy + vy * len)>>

\* the mark of corner c (1 low-x low-y, 2 high-x low-y, 3 low-x high-y,
\* 4 high-x high-y) of the trim box (10, 10)-(xr, yt); dir 1 points the
\* arms into the box, -1 away from it
CornerMark(c, xr, yt, dir, len) ==
  CASE c = 1 -> LMark(10, 10, dir, dir, len)
    [] c = 2 -> LMark(xr, 10, -dir, dir, len)
    [] c = 3 -> LMark(10, yt, dir, -dir, len)
    [] c = 4 -> LMark(xr, yt, -dir, -dir, len)

ArmLens == {10, 50}
TrimCorners == {<<490, 690>>, <<110, 690>>, <<109, 690>>, <<490, 109>>}

StandardMarks(present) ==
  Flatten(Pick([c \in 1..4 |-> CornerMark(c, 490, 690, 1, 20)], present))

\* marks and strays that add crop-mark candidates
ExtraMarks ==
  << LMark(260, 10, 1, 1, 20),
     LMark(400, 600, 1, 1, 20),
     LMark(30, 30, 1, 1, 20),
     <<PDFLine(230, 350, 270, 350), PDFLine(250, 330, 250, 370)>>,
     <<PDFLine(300, 400, 320, 420), PDFLine(322, 420, 302, 400)>>,
     <<PDFLine(100, 600, 120, 601), PDFLine(110, 570, 110, 590)>>,
     <<PDFLine(150, 400, 170, 420), PDFLine(170, 400, 150, 420)>>,
     <<PDFLine(150, 500, 170, 520), PDFLine(150, 520, 170, 500)>> >>

\* small boxes of bleed and registration marks
MarkRects ==
  << PDFRectangle(200, 300, 10, 10), PDFRectangle(230, 300, 10, 10),
     PDFRectangle(260, 301, 10, 10), PDFRectangle(290, 302, 10, 10),
     PDFRectangle(20, 5, 10, 10), PDFRectangle(50, 5, 10, 10),
     PDFRectangle(80, 5, 10, 10),
     PDFRectangle(20, 60, 10, 10), PDFRectangle(200, 60, 10, 10),
     PDFRectangle(300, 49, 10, 10), PDFRectangle(330, 50, 10, 10) >>

\* tick lines drawn with the boxes
Ticks ==
  << PDFLine(200, 305, 240, 305), PDFLine(30, 55, 30, 75),
     PDFLine(150, 65, 190, 65), PDFLine(243, 305, 280, 305) >>

\* the sides of the frame (0, 0)-(100, 50), a middle rule, a short rule and
\* a rule 10pt above the lower side
FrameLines ==
  << PDFLine(0, 0, 100, 0), PDFLine(0, 50, 100, 50),
     PDFLine(0, 0, 0, 50), PDFLine(100, 0, 100, 50),
     PDFLine(0, 25, 100, 25), PDFLine(0, 80, 40, 80),
     PDFLine(0, 10, 100, 10) >>

FrameRects ==
  << PDFRectangle(0, 0, 100, 50), PDFRectangle(3, 2, 98, 52),
     PDFRectangle(0, 0, 100, 56) >>

Page(lines, rects, texts, images, rev) ==
  [lines |-> IF rev THEN Reverse(lines) ELSE lines,
   rects |-> IF rev THEN Reverse(rects) ELSE rects,
   texts |-> texts, images |-> images]

\* crop marks alone, at some of the four corners of a trim box
CornerPages ==
  {Page(Flatten(Pick([c \in 1..4 |-> CornerMark(c, t[1], t[2], dir, len)], present)),
        <<>>, <<>>, <<>>, rev) :
     present \in SUBSET (1..4), t \in TrimCorners, dir \in {1, -1},
     len \in ArmLens, rev \in BOOLEAN}

\* standard crop marks with surplus marks
SurplusPages ==
  {Page(StandardMarks(present) \o Flatten(Pick(ExtraMarks, E)),
        <<>>, <<>>, <<>>, rev) :
     present \in SUBSET (1..4), E \in UpTo(ExtraMarks, MaxExtra), rev \in BOOLEAN}

\* standard crop marks with bleed-mark boxes and ticks
BleedPages ==
  {Page(StandardMarks(1..4) \o Pick(Ticks, T), Pick(MarkRects, R),
        <<"Title", "Body">>, <<"logo">>, rev) :
     T \in UpTo(Ticks, MaxTicks), R \in UpTo(MarkRects, MaxRects), rev \in BOOLEAN}

\* a frame drawn as lines, as a rectangle, or both
FramePages ==
  {Page(Pick(FrameLines, L), Pick(FrameRects, R), <<"Caption">>, <<>>, rev) :
     L \in SUBSET (1..Len(FrameLines)), R \in UpTo(FrameRects, MaxFrameRects),
     rev \in BOOLEAN}

\* short rungs across one short upright: intersection points in a single
\* column, two of them 2pt apart
Rungs ==
  << PDFLine(95, 100, 110, 100), PDFLine(95, 110, 110, 110),
     PDFLine(95, 120, 110, 120), PDFLine(95, 130, 110, 130),
     PDFLine(95, 102, 110, 102) >>

RungPages ==
  {Page(<<PDFLine(100, 100, 100, 130)>> \o Pick(Rungs, R), <<>>, <<>>, <<>>, rev) :
     R \in SUBSET (1..Len(Rungs)), rev \in BOOLEAN}

\* three boxes whose Y origins step by 1.5pt, supplied in every order
ChainRects ==
  << PDFRectangle(200, 300, 10, 10),
     [PDFRectangle(230, 301, 10, 10) EXCEPT !.y = 301 * Pt + Pt \div 2],
     PDFRectangle(260, 303, 10, 10) >>

ChainPages ==
  {Page(StandardMarks(1..4), [k \in 1..Len(ChainRects) |-> ChainRects[p[k]]],
        <<>>, <<>>, FALSE) :
     p \in Permutations(1..Len(ChainRects))}

Pages ==
  CornerPages \cup SurplusPages \cup BleedPages \cup FramePages \cup RungPages
    \cup ChainPages

---------------------------------------------------------------------------
(* extractPDFElements: the interior box (linesBoundingBox) *)

Box(x, y, w, h) ==
  [linesBoundingBoxX |-> x, linesBoundingBoxY |-> y,
   linesBoundingBoxWidth |-> w, linesBoundingBoxHeight |-> h]

\* extractLinesFromPDF: "the largest box that is INSIDE the found lines",
\* between the outermost horizontal and vertical lines; the default when
\* either kind is missing
LineBoundingBox(lines) ==
  LET horizontalYs == {MidY(lines[k]) : k \in {i \in 1..Len(lines) : IsHorizontalLine(lines[i])}}
      verticalXs == {MidX(lines[k]) : k \in {i \in 1..Len(lines) : IsVerticalLine(lines[i])}}
  IN  IF horizontalYs = {} \/ verticalXs = {} THEN Box(0, 0, 0, 0)
      ELSE Box(SetMin(verticalXs), SetMin(horizontalYs),
               SetMax(verticalXs) - SetMin(verticalXs),
               SetMax(horizontalYs) - SetMin(horizontalYs))

cropMarkMaxLength == 30 * Pt
cropMarkMinLength == 10 * Pt
intersectionTolerance == 5 * Pt
clusterTolerance == 5 * Pt
coordTolerance == 10 * Pt

\* "Find short horizontal and vertical lines"
IsCropLine(l) ==
  LET squared == (l.x2 - l.x1) * (l.x2 - l.x1) + (l.y2 - l.y1) * (l.y2 - l.y1)
  IN  /\ squared >= cropMarkMinLength * cropMarkMinLength
      /\ squared <= cropMarkMaxLength * cropMarkMaxLength

IsHorizontalCropLine(l) == IsCropLine(l) /\ IsHorizontalLine(l)
IsVerticalCropLine(l) == IsCropLine(l) /\ IsVerticalLine(l)

\* the horizontal and the vertical line come near each other
Intersects(hLine, vLine) ==
  /\ MidX(vLine) >= LineMinX(hLine) - intersectionTolerance
  /\ MidX(vLine) <= LineMaxX(hLine) + intersectionTolerance
  /\ MidY(hLine) >= LineMinY(vLine) - intersectionTolerance
  /\ MidY(hLine) <= LineMaxY(vLine) + intersectionTolerance

\* cropMarkCorners, in the order of the loops over horizontalCropLines and
\* verticalCropLines
CropMarkCorners(lines) ==
  LET H == SelectSeq(lines, IsHorizontalCropLine)
      V == SelectSeq(lines, IsVerticalCropLine)
      Row(h) == LET near(v) == Intersects(h, v)
                    hit == SelectSeq(V, near)
                IN  [k \in 1..Len(hit) |-> <<MidX(hit[k]), MidY(h)>>]
  IN  Flatten([k \in 1..Len(H) |-> Row(H[k])])

\* uniqueCorners: each corner joins the first cluster closer than the
\* tolerance, which moves to the mean of the two, or starts a new one
RECURSIVE ClusterCorners(_, _, _)
ClusterCorners(corners, k, unique) ==
  IF k > Len(corners) THEN unique
  ELSE LET c == corners[k]
           Close(u) == (c[1] - u[1]) * (c[1] - u[1]) + (c[2] - u[2]) * (c[2] - u[2])
                         < clusterTolerance * clusterTolerance
           found == {i \in 1..Len(unique) : Close(unique[i])}
       IN  ClusterCorners(corners, k + 1,
             IF found = {} THEN Append(unique, c)
             ELSE LET i == SetMin(found)
                  IN  [unique EXCEPT ![i] = <<(unique[i][1] + c[1]) \div 2,
                                              (unique[i][2] + c[2]) \div 2>>])

\* xCounts / yCounts: a std::map from coordinate to count; a value joins the
\* lowest key closer than the tolerance or becomes a key
RECURSIVE CoordCounts(_, _, _)
CoordCounts(values, k, counts) ==
  IF k > Len(values) THEN counts
  ELSE LET near == {key \in DOMAIN counts : Abs(values[k] - key) < coordTolerance}
       IN  CoordCounts(values, k + 1,
             IF near = {} THEN (values[k] :> 1) @@ counts
             ELSE [counts EXCEPT ![SetMin(near)] = @ + 1])

NoCounts == [key \in {} |-> 0]

\* the first two entries after std::sort by descending count, as (lower,
\* higher): entries of equal count may come in any order
TopTwo(counts) ==
  {<<Min(a, b), Max(a, b)>> :
     <<a, b>> \in {p \in (DOMAIN counts) \X (DOMAIN counts) :
                     /\ p[1] # p[2]
                     /\ \A key \in DOMAIN counts : counts[key] <= counts[p[1]]
                     /\ \A key \in DOMAIN counts \ {p[1]} : counts[key] <= counts[p[2]]}}

\* xCounts (coordinate 1) and yCounts (coordinate 2) of the clustered corners
CornerCounts(lines, coordinate) ==
  LET unique == ClusterCorners(CropMarkCorners(lines), 1, <<>>)
  IN  CoordCounts([k \in 1..Len(unique) |-> unique[k][coordinate]], 1, NoCounts)

\* the values linesBoundingBox may have when the line extraction is done
InteriorBoxes(lines) ==
  LET corners == CropMarkCorners(lines)
      xCounts == CornerCounts(lines, 1)
      yCounts == CornerCounts(lines, 2)
  IN  IF ~(Len(corners) >= 4) THEN {Box(0, 0, 0, 0)}
      ELSE IF Cardinality(DOMAIN xCounts) >= 2 /\ Cardinality(DOMAIN yCounts) >= 2
      THEN {Box(xs[1], ys[1], xs[2] - xs[1], ys[2] - ys[1]) :
              xs \in TopTwo(xCounts), ys \in TopTwo(yCounts)}
      ELSE {LineBoundingBox(lines)}

---------------------------------------------------------------------------
(* stripBleedMarks as a state machine *)

NoStep1 ==
  [rectangleGroups |-> <<>>, rectanglesToRemove |-> {}, linesToRemove |-> {},
   filteredRectangles |-> <<>>, filteredLines |-> <<>>]

Init ==
  /\ pc = "extract"
  /\ \E p \in Pages :
       /\ rawLines = p.lines
       /\ rawRects = p.rects
       /\ rawTexts = p.texts
       /\ rawImages = p.images
  /\ allElements = DefaultElements
  /\ step1 = NoStep1
  /\ foundMarks = <<>>
  /\ cropMarks = <<>>
  /\ result = DefaultElements
  /\ MapIdle
  /\ OtherIdle

\* PDFElements allElements = extractPDFElements(pdfPath)
Extract ==
  /\ pc = "extract"
  /\ \E box \in InteriorBoxes(rawLines) :
       allElements' =
         ExtractPDFElements(rawLines, rawRects, rawTexts, rawImages, PageSize) @@ box
  /\ pc' = "classify"
  /\ UNCHANGED <<rawLines, rawRects, rawTexts, rawImages, step1, foundMarks,
                 cropMarks, result>>
  /\ UNCHANGED <<mapVars, sortVars, ocrVars>>

\* STEP 1: remove bleed marks
Classify ==
  /\ pc = "classify"
  /\ step1' = RemoveBleedMarks(allElements)
  /\ pc' = "detect"
  /\ UNCHANGED <<rawLines, rawRects, rawTexts, rawImages, allElements, foundMarks,
                 cropMarks, result>>
  /\ UNCHANGED <<mapVars, sortVars, ocrVars>>

\* STEP 2: perpendicular pairs; at least 4 were found
Detect ==
  /\ pc = "detect"
  /\ LET marks == FindCropMarks(step1.filteredLines)
     IN  /\ ~Insufficient(marks)
         /\ foundMarks' = marks
         /\ cropMarks' = marks
  /\ pc' = "select"
  /\ UNCHANGED <<rawLines, rawRects, rawTexts, rawImages, allElements, step1, result>>
  /\ UNCHANGED <<mapVars, sortVars, ocrVars>>

\* "Could not find 4 crop marks. Found: n"
DetectInsufficient ==
  /\ pc = "detect"
  /\ LET marks == FindCropMarks(step1.filteredLines)
     IN  /\ Insufficient(marks)
         /\ foundMarks' = marks
         /\ cropMarks' = marks
         /\ result' = Failure(<<"Could not find 4 crop marks. Found: ", Len(marks)>>)
  /\ pc' = "done"
  /\ UNCHANGED <<rawLines, rawRects, rawTexts, rawImages, allElements, step1>>
  /\ UNCHANGED <<mapVars, sortVars, ocrVars>>

\* the corner reduction leaves exactly 4 marks
Select ==
  /\ pc = "select"
  /\ cropMarks' = SelectCorners(cropMarks)
  /\ ~Ambiguous(cropMarks')
  /\ pc' = "box"
  /\ UNCHANGED <<rawLines, rawRects, rawTexts, rawImages, allElements, step1,
                 foundMarks, result>>
  /\ UNCHANGED <<mapVars, sortVars, ocrVars>>

\* "Could not identify exactly 4 crop marks"
SelectAmbiguous ==
  /\ pc = "select"
  /\ cropMarks' = SelectCorners(cropMarks)
  /\ Ambiguous(cropMarks')
  /\ result' = Failure(<<"Could not identify exactly 4 crop marks">>)
  /\ pc' = "done"
  /\ UNCHANGED <<rawLines, rawRects, rawTexts, rawImages, allElements, step1,
                 foundMarks>>
  /\ UNCHANGED <<mapVars, sortVars, ocrVars>>

\* the crop box is large enough: build the final result
Finish ==
  /\ pc = "box"
  /\ LET box == CropBox(cropMarks)
     IN  /\ ~TooSmall(box)
         /\ result' = FinalResult(allElements, step1.filteredRectangles,
                                  step1.filteredLines, box)
  /\ pc' = "done"
  /\ UNCHANGED <<rawLines, rawRects, rawTexts, rawImages, allElements, step1,
                 foundMarks, cropMarks>>
  /\ UNCHANGED <<mapVars, sortVars, ocrVars>>

\* "Detected crop box is too small"
FinishTooSmall ==
  /\ pc = "box"
  /\ LET box == CropBox(cropMarks)
     IN  /\ TooSmall(box)
         /\ result' = Failure(<<"Detected crop box is too small (", box.cropWidth,
                                " x ", box.cropHeight,
                                " points). Crop marks may not be correctly detected.">>)
  /\ pc' = "done"
  /\ UNCHANGED <<rawLines, rawRects, rawTexts, rawImages, allElements, step1,
                 foundMarks, cropMarks>>
  /\ UNCHANGED <<mapVars, sortVars, ocrVars>>

Next ==
  \/ Extract
  \/ Classify
  \/ Detect
  \/ DetectInsufficient
  \/ Select
  \/ SelectAmbiguous
  \/ Finish
  \/ FinishTooSmall

Spec == Init /\ [][Next]_vars

---------------------------------------------------------------------------
(* The element sets and OCR words createRelativeMap may be given *)

MaxTexts == 2
MaxImages == 1
MaxMapRects == 2
MaxWords == 2
MaxMatches == 3

TextRegion(str, x, y, w, h) ==
  [text |-> str, boundingBox |-> [x |-> x, y |-> y, width |-> w, height |-> h]]

EmbeddedImage(x, y, w, h) ==
  [x |-> x, y |-> y, displayWidth |-> w, displayHeight |-> h]

MapRectangle(x, y, w, h) == [x |-> x, y |-> y, width |-> w, height |-> h]

OcrWord(str, x, y, w, h) ==
  [text |-> str, x |-> x, y |-> y, width |-> w, height |-> h]

\* text lines: an exact match up to case and blanks, a 3-letter word, a
\* one-letter word in a box of width 0 (a glyph narrower than 1pt after the
\* cast to int), a fill-in blank, a long word right of the others, a
\* 2-letter word
TextPool ==
  << TextRegion(<<"T", "o", " ", "t", "a", "l">>, 5, 20, 40, 10),
     TextRegion(<<"D", "u", "e">>, 40, 45, 20, 10),
     TextRegion(<<"A">>, 25, 70, 0, 10),
     TextRegion(<<"N", "a", "m", "e", "_", "_", "_", "_", "_">>, 10, 60, 50, 6),
     TextRegion(<<"S", "u", "b", "t", "o", "t", "a", "l">>, 120, 70, 60, 10),
     TextRegion(<<"N", "o">>, 65, 20, 20, 10) >>

ImagePool ==
  << EmbeddedImage(20, 20, 60, 40), EmbeddedImage(25, 5, 0, 30) >>

\* two rectangles of the same largest area, a small one, an empty one
MapRectPool ==
  << MapRectangle(10, 20, 80, 50), MapRectangle(0, 0, 50, 80),
     MapRectangle(30, 30, 10, 10), MapRectangle(0, 0, 0, 30) >>

WordPool ==
  << OcrWord(<<"T", "O", "T", "A", "L">>, 210, 420, 80, 20),
     OcrWord(<<"S", "u", "b", "_", "t", "o", "t", "a", "l">>, 400, 100, 100, 20),
     OcrWord(<<"O", "v", "e", "r", "d", "u", "e">>, 300, 300, 100, 20),
     OcrWord(<<"t", "o">>, 50, 50, 20, 20),
     OcrWord(<<"a">>, 10, 10, 10, 20),
     OcrWord(<<"n", "o">>, 130, 420, 40, 20),
     OcrWord(<<"t", "o", "t", "a", "l">>, 250, 120, 60, 20) >>

MapPageHeight == 200

ElementSet(texts, images, rects, box) ==
  [DefaultElements EXCEPT
     !.success = TRUE,
     !.textLines = texts, !.textLineCount = Len(texts),
     !.images = images, !.imageCount = Len(images),
     !.rectangles = rects, !.rectangleCount = Len(rects),
     !.linesBoundingBoxX = box[1], !.linesBoundingBoxY = box[2],
     !.linesBoundingBoxWidth = box[3], !.linesBoundingBoxHeight = box[4],
     !.pageWidth = 200, !.pageHeight = MapPageHeight]

MapCall(el, mode, file, words) ==
  [elements |-> el, boundsMode |-> mode, markToFile |-> file, ocrWords |-> words]

\* calls that differ in what there is to bound; no target image
BoundsCalls ==
  {MapCall(ElementSet(Pick(TextPool, T), Pick(ImagePool, I), Pick(MapRectPool, R), box),
           mode, "", <<>>) :
     T \in UpTo(TextPool, MaxTexts), I \in UpTo(ImagePool, MaxImages),
     R \in UpTo(MapRectPool, MaxMapRects),
     box \in {<<0, 0, 0, 0>>, <<0, 0, 100, 100>>},
     mode \in {"USE_CROP_MARKS", "USE_LARGEST_RECTANGLE"}}

\* calls that differ in the texts and in what the Word Recognizer detects, in
\* either order; the target image loads or does not
MarkCalls ==
  {MapCall(ElementSet(texts, <<EmbeddedImage(20, 20, 60, 40)>>, <<>>,
                      <<0, 0, 100, 100>>),
           "USE_CROP_MARKS", file, words) :
     texts \in {Pick(TextPool, T) : T \in UpTo(TextPool, MaxTexts)},
     words \in {Pick(WordPool, W) : W \in UpTo(WordPool, MaxWords)}
               \cup {Reverse(Pick(WordPool, W)) : W \in UpTo(WordPool, MaxWords)},
     file \in {"scan.png"}}
  \cup
  {MapCall(ElementSet(Pick(TextPool, {1}), <<>>, <<>>, <<0, 0, 100, 100>>),
           "USE_CROP_MARKS", "missing.png", <<>>)}

\* cv::imread(markToFile) gives an image
Loadable(file) == file = "scan.png"

\* the sizes cv::imread gives the loaded image
ImageSizes == {[cols |-> 1000, rows |-> 800], [cols |-> 800, rows |-> 600]}

---------------------------------------------------------------------------
(* createRelativeMap as a state machine *)

StripIdle ==
  /\ pc = "idle"
  /\ rawLines = <<>> /\ rawRects = <<>> /\ rawTexts = <<>> /\ rawImages = <<>>
  /\ allElements = DefaultElements
  /\ step1 = NoStep1
  /\ foundMarks = <<>>
  /\ cropMarks = <<>>
  /\ result = DefaultElements

MapInit ==
  /\ StripIdle
  /\ OtherIdle
  /\ targetImage = NoImage
  /\ canvas = NoCanvas
  /\ mapPc = "bounds"
  /\ \E c \in BoundsCalls \cup MarkCalls :
       /\ elements = c.elements
       /\ boundsMode = c.boundsMode
       /\ markToFile = c.markToFile
       /\ ocrWords = c.ocrWords
  /\ mapResult = DefaultRelativeMapResult
  /\ matches = <<>>
  /\ cropRect = DefaultRect
  /\ solved = "none"

\* "Store the calculated bounds"
MapBounds ==
  /\ mapPc = "bounds"
  /\ LET b == ReferenceBounds(elements, boundsMode)
     IN  /\ b.found
         /\ mapResult' = [mapResult EXCEPT
                            !.boundsX = b.minX, !.boundsY = b.minY,
                            !.boundsWidth = b.maxX - b.minX,
                            !.boundsHeight = b.maxY - b.minY]
  /\ mapPc' = "convert"
  /\ UNCHANGED <<elements, boundsMode, markToFile, ocrWords, targetImage, canvas, matches, cropRect, solved>>
  /\ UNCHANGED <<stripVars, sortVars, ocrVars>>

\* the early returns of the bounds selection
MapBoundsMissing ==
  /\ mapPc = "bounds"
  /\ LET b == ReferenceBounds(elements, boundsMode)
     IN  /\ ~b.found
         /\ mapResult' = [mapResult EXCEPT !.errorMessage = b.errorMessage]
  /\ mapPc' = "done"
  /\ UNCHANGED <<elements, boundsMode, markToFile, ocrWords, targetImage, canvas, matches, cropRect, solved>>
  /\ UNCHANGED <<stripVars, sortVars, ocrVars>>

\* the two conversion loops
MapConvert ==
  /\ mapPc = "convert"
  /\ mapResult' = [mapResult EXCEPT !.elements = RelativeElements(elements, mapResult)]
  /\ mapPc' = "mark"
  /\ UNCHANGED <<elements, boundsMode, markToFile, ocrWords, targetImage, canvas, matches, cropRect, solved>>
  /\ UNCHANGED <<stripVars, sortVars, ocrVars>>

\* no markToFile, or the image does not load: result.success = true
MapReturn ==
  /\ mapPc = "mark"
  /\ markToFile = "" \/ ~Loadable(markToFile)
  /\ mapResult' = [mapResult EXCEPT !.success = TRUE]
  /\ mapPc' = "done"
  /\ UNCHANGED <<elements, boundsMode, markToFile, ocrWords, targetImage, canvas, matches, cropRect, solved>>
  /\ UNCHANGED <<stripVars, sortVars, ocrVars>>

\* Step 1 and Step 2 of the auto-crop: OCR words matched against the texts
MapMatch ==
  /\ mapPc = "mark"
  /\ markToFile # "" /\ Loadable(markToFile)
  /\ targetImage' \in ImageSizes
  /\ matches' = MatchWords(mapResult.elements, ocrWords)
  /\ mapPc' = "align"
  /\ UNCHANGED <<elements, boundsMode, markToFile, ocrWords, canvas, mapResult, cropRect, solved>>
  /\ UNCHANGED <<stripVars, sortVars, ocrVars>>

\* canvas = targetImage(rect).clone() and canvas = targetImage.clone()
Cropped(rect) == [kind |-> "crop", rect |-> rect]
FullImage(image) ==
  [kind |-> "full",
   rect |-> [x |-> 0, y |-> 0, width |-> image.cols, height |-> image.rows]]

\* "Clamp crop rect to image bounds"
ClampToImage_OriginOnly(rect, image) ==
  [x |-> Max(0, rect.x), y |-> Max(0, rect.y),
   width |-> rect.width, height |-> rect.height]

ClampToImage(rect, image) ==
  LET clampedX == Max(0, rect.x)
      clampedY == Max(0, rect.y)
  IN  [x |-> clampedX, y |-> clampedY,
       width |-> Min(rect.width, image.cols - clampedX),
       height |-> Min(rect.height, image.rows - clampedY)]

\* the size a clamped rectangle needs to be cropped to
BigEnough(rect) == rect.width > 10 /\ rect.height > 10

\* Step 3 with 2 or more matches: the solver is called and its rectangle,
\* clamped, is cropped when large enough; the boxes are drawn on the canvas
\* and result.success = true
MapAlignSolve ==
  /\ mapPc = "align"
  /\ Len(matches) >= 2
  /\ LET out == solveCropRectFromMatches(matches, cropRect)
         clamped == ClampToImage(out.cropRect, targetImage)
     IN  /\ solved' = [value |-> out.value, residualsSquared |-> out.residualsSquared]
         /\ IF out.value /\ BigEnough(clamped)
            THEN cropRect' = clamped /\ canvas' = Cropped(clamped)
            ELSE cropRect' = out.cropRect /\ canvas' = FullImage(targetImage)
  /\ mapResult' = [mapResult EXCEPT !.success = TRUE]
  /\ mapPc' = "done"
  /\ UNCHANGED <<elements, boundsMode, markToFile, ocrWords, targetImage, matches>>
  /\ UNCHANGED <<stripVars, sortVars, ocrVars>>

\* fewer than 2 matches treated as an error of the call
MapAlignUnsolved_Fails ==
  /\ mapPc = "align"
  /\ Len(matches) < 2
  /\ mapResult' = [mapResult EXCEPT !.errorMessage = "Could not solve crop rect"]
  /\ mapPc' = "done"
  /\ UNCHANGED <<elements, boundsMode, markToFile, ocrWords, targetImage, canvas, matches, cropRect, solved>>
  /\ UNCHANGED <<stripVars, sortVars, ocrVars>>

RatMin(a, b) == IF RatLess(b, a) THEN b ELSE a
RatMax(a, b) == IF RatLess(a, b) THEN b ELSE a

RECURSIVE Power(_, _)
Power(b, n) == IF n = 0 THEN 1 ELSE b * Power(b, n - 1)

\* the values frac takes in "for (double frac = 0.3; frac <= 1.0; frac +=
\* 0.01)", in hundredths: the 71st value of the double is
\* 1.0000000000000004, so the loop ends after 0.99
SweepPercents == 30..99

\* one iteration of the sweep for the match m: the rectangle tried, whether
\* it is skipped, the clamped area and the number of 0.8 penalties
Try(m, image, bounds, k) ==
  LET cols == RatInt(image.cols)
      rows == RatInt(image.rows)
      expectedAR == RatDiv(RatInt(bounds.boundsWidth), RatInt(bounds.boundsHeight))
      tryW == RatNorm(image.cols * k, 100)
      tryH == RatDiv(tryW, expectedAR)
      tryX == RatSub(m.ocrCentreX, RatMul(m.relCentreX, tryW))
      tryY == RatSub(m.ocrCentreY, RatMul(m.relCentreY, tryH))
      tenth == Rat(1, 10)
      clX == RatMax(RatInt(0), tryX)
      clY == RatMax(RatInt(0), tryY)
      clW == RatMin(tryW, RatSub(cols, clX))
      clH == RatMin(tryH, RatSub(rows, clY))
      Count(b) == IF b THEN 1 ELSE 0
  IN  [k |-> k, tryX |-> tryX, tryY |-> tryY, tryW |-> tryW, tryH |-> tryH,
       skipped |->
         \/ RatLess(rows, tryH)
         \/ RatLess(tryX, RatMul(RatInt(-1), RatMul(tryW, tenth)))
         \/ RatLess(tryY, RatMul(RatInt(-1), RatMul(tryH, tenth)))
         \/ RatLess(RatMul(cols, Rat(11, 10)), RatAdd(tryX, tryW))
         \/ RatLess(RatMul(rows, Rat(11, 10)), RatAdd(tryY, tryH)),
       area |-> RatMul(clW, clH),
       penalties |-> Count(RatLess(tryX, RatInt(0))) + Count(RatLess(tryY, RatInt(0)))
                     + Count(RatLess(cols, RatAdd(tryX, tryW)))
                     + Count(RatLess(rows, RatAdd(tryY, tryH)))]

\* score = areaFrac * penalty of s is less than that of t; the division by
\* cols * rows is common to both and the powers of 0.8 = 4/5 are crossed
ScoreLess(s, t) ==
  LET common == Min(s.penalties, t.penalties)
      sMore == s.penalties - common
      tMore == t.penalties - common
  IN  s.area.n * t.area.d * Power(4, sMore) * Power(5, tMore)
        < t.area.n * s.area.d * Power(4, tMore) * Power(5, sMore)

\* the iterations that can become the best: not skipped, score above the
\* starting bestScore = -1, and at the end "bestScore > 0"
Candidates(m, image, bounds) ==
  {t \in {Try(m, image, bounds, k) : k \in SweepPercents} :
     ~t.skipped /\ t.area.n > 0}

\* "if (score > bestScore)": the first iteration of the highest score
Best(cs) ==
  CHOOSE t \in cs :
    \A u \in cs : u # t => ScoreLess(u, t) \/ (~ScoreLess(t, u) /\ t.k < u.k)

\* the rectangle cropped from the best iteration
SweepRect(t, image) ==
  LET cx == Max(0, Round(t.tryX))
      cy == Max(0, Round(t.tryY))
  IN  [x |-> cx, y |-> cy,
       width |-> Min(Round(t.tryW), image.cols - cx),
       height |-> Min(Round(t.tryH), image.rows - cy)]

\* the single-match fallback: the crop, or none
SingleMatchCrop(m, image, bounds) ==
  LET cs == Candidates(m, image, bounds)
  IN  IF cs = {} THEN {}
      ELSE {r \in {SweepRect(Best(cs), image)} : BigEnough(r)}

\* Step 3 with fewer than 2 matches: the single-match sweep ("Single-match
\* fallback failed, using full image" when it crops nothing) or "Could not
\* solve crop rect (no matches), using full image"; neither touches result
\* before result.success = true
MapAlignUnsolved ==
  /\ mapPc = "align"
  /\ Len(matches) < 2
  /\ LET crops == IF Len(matches) = 1
                  THEN SingleMatchCrop(matches[1], targetImage, mapResult)
                  ELSE {}
     IN  IF crops = {}
         THEN cropRect' = cropRect /\ canvas' = FullImage(targetImage)
         ELSE \E r \in crops : cropRect' = r /\ canvas' = Cropped(r)
  /\ mapResult' = [mapResult EXCEPT !.success = TRUE]
  /\ mapPc' = "done"
  /\ UNCHANGED <<elements, boundsMode, markToFile, ocrWords, targetImage, matches, solved>>
  /\ UNCHANGED <<stripVars, sortVars, ocrVars>>

\* a std::exception out of the image work (cv::imread, the Word Recognizer,
\* the drawing, cv::imwrite), caught at the end of the function
MapThrow ==
  /\ mapPc \in {"mark", "align"}
  /\ markToFile # ""
  /\ mapResult' = [mapResult EXCEPT
                     !.errorMessage = "Error creating relative map: cv::Exception"]
  /\ mapPc' = "done"
  /\ UNCHANGED <<elements, boundsMode, markToFile, ocrWords, targetImage, canvas, matches, cropRect, solved>>
  /\ UNCHANGED <<stripVars, sortVars, ocrVars>>

MapNext ==
  \/ MapBounds
  \/ MapBoundsMissing
  \/ MapConvert
  \/ MapReturn
  \/ MapMatch
  \/ MapAlignSolve
  \/ MapAlignUnsolved
  \/ MapThrow

MapSpec == MapInit /\ [][MapNext]_vars

---------------------------------------------------------------------------
(* solveCropRectFromMatches called on its own *)

\* crop rectangles that generate matched pairs: the 800 x 600 one, one too
\* narrow, one too low, one at a quarter pixel, a mirrored one, one of
\* half-pixel size
GeneratingRects ==
  { [cropWidth |-> Rat(800, 1), cropHeight |-> Rat(600, 1),
     cropX |-> Rat(50, 1), cropY |-> Rat(20, 1)],
    [cropWidth |-> Rat(5, 1), cropHeight |-> Rat(600, 1),
     cropX |-> Rat(50, 1), cropY |-> Rat(20, 1)],
    [cropWidth |-> Rat(800, 1), cropHeight |-> Rat(8, 1),
     cropX |-> Rat(50, 1), cropY |-> Rat(20, 1)],
    [cropWidth |-> Rat(801, 1), cropHeight |-> Rat(600, 1),
     cropX |-> Rat(203, 4), cropY |-> Rat(20, 1)],
    [cropWidth |-> Rat(-800, 1), cropHeight |-> Rat(600, 1),
     cropX |-> Rat(850, 1), cropY |-> Rat(20, 1)],
    [cropWidth |-> Rat(401, 2), cropHeight |-> Rat(300, 1),
     cropX |-> Rat(50, 1), cropY |-> Rat(41, 2)] }

\* relative centres: pairs that share relativeX or relativeY, one right of
\* the bounds, two on the corners
RelativeCentres ==
  << <<Rat(1, 4), Rat(1, 4)>>, <<Rat(1, 2), Rat(3, 4)>>, <<Rat(3, 4), Rat(1, 2)>>,
     <<Rat(1, 4), Rat(3, 4)>>, <<Rat(3, 2), Rat(1, 4)>>,
     <<Rat(0, 1), Rat(1, 1)>>, <<Rat(1, 1), Rat(0, 1)>> >>

\* the pair of a relative centre under a crop rectangle, the pixel moved by
\* offset in X
PairUnder(g, c, offset) ==
  [relCentreX |-> c[1], relCentreY |-> c[2],
   ocrCentreX |-> RatAdd(RatAdd(RatMul(c[1], g.cropWidth), g.cropX), RatInt(offset)),
   ocrCentreY |-> RatAdd(RatMul(c[2], g.cropHeight), g.cropY)]

\* a centre of an OcrWord: ints x + width / 2.0
IsWordCentre(m) == m.ocrCentreX.d \in {1, 2} /\ m.ocrCentreY.d \in {1, 2}

\* lists of up to MaxMatches pairs of distinct centres under one rectangle,
\* exactly or with the last pixel 3 off
MatchLists ==
  LET picks == UNION {[1..n -> 1..Len(RelativeCentres)] : n \in 0..MaxMatches}
      distinct == {s \in picks : \A i, j \in DOMAIN s : s[i] = s[j] => i = j}
      lists == {[k \in DOMAIN s |->
                   PairUnder(g, RelativeCentres[s[k]],
                             IF k = Len(s) THEN off ELSE 0)] :
                  s \in distinct, g \in GeneratingRects, off \in {0, 3}}
  IN  {ms \in lists : \A k \in DOMAIN ms : IsWordCentre(ms[k])}

\* the caller's rectangle: default-constructed, or holding an earlier value
CallerRects == {DefaultRect, [x |-> 7, y |-> 8, width |-> 9, height |-> 11]}

SolveInit ==
  /\ StripIdle
  /\ OtherIdle
  /\ targetImage = NoImage
  /\ canvas = NoCanvas
  /\ mapPc = "solve"
  /\ elements = DefaultElements
  /\ boundsMode = "USE_CROP_MARKS"
  /\ markToFile = ""
  /\ ocrWords = <<>>
  /\ mapResult = DefaultRelativeMapResult
  /\ matches \in MatchLists
  /\ cropRect \in CallerRects
  /\ solved = "none"

SolveCall ==
  /\ mapPc = "solve"
  /\ LET out == solveCropRectFromMatches(matches, cropRect)
     IN  /\ solved' = [value |-> out.value, residualsSquared |-> out.residualsSquared]
         /\ cropRect' = out.cropRect
  /\ mapPc' = "solved"
  /\ UNCHANGED <<elements, boundsMode, markToFile, ocrWords, targetImage, canvas, mapResult, matches>>
  /\ UNCHANGED <<stripVars, sortVars, ocrVars>>

SolveNext == SolveCall

SolveSpec == SolveInit /\ [][SolveNext]_vars

---------------------------------------------------------------------------
(* stripBleedMarks, the simplified variant: the crop box is the
   linesBoundingBox of extractPDFElements *)

\* interior boxes extractPDFElements may report: none, a page-sized one, one
\* too narrow, one too low, the smallest accepted
LinesBoxes ==
  { <<0, 0, 0, 0>>, <<10, 10, 480, 680>>, <<10, 10, 99, 680>>,
    <<10, 10, 480, 99>>, <<10, 10, 100, 100>> }

\* what extractPDFElements may return: a failure caught at its top level, or
\* the elements of a page
ExtractionResults ==
  { Failure(<<"PDF element extraction failed: ", "std::exception">>) }
  \cup
  { ElementSet(Pick(TextPool, T), Pick(ImagePool, I), <<>>, box) :
      T \in UpTo(TextPool, MaxTexts), I \in UpTo(ImagePool, MaxImages),
      box \in LinesBoxes }

SimplifiedInit ==
  /\ pc = "simplified"
  /\ rawLines = <<>> /\ rawRects = <<>> /\ rawTexts = <<>> /\ rawImages = <<>>
  /\ allElements = DefaultElements
  /\ step1 = NoStep1
  /\ foundMarks = <<>>
  /\ cropMarks = <<>>
  /\ result = DefaultElements
  /\ MapIdle
  /\ OtherIdle

\* PDFElements allElements = extractPDFElements(pdfPath)
SimplifiedExtract ==
  /\ pc = "simplified"
  /\ allElements' \in ExtractionResults
  /\ pc' = "extracted"
  /\ UNCHANGED <<rawLines, rawRects, rawTexts, rawImages, step1, foundMarks,
                 cropMarks, result>>
  /\ UNCHANGED <<mapVars, sortVars, ocrVars>>

\* "Failed to extract PDF elements: "
SimplifiedExtractFailed ==
  /\ pc = "extracted"
  /\ ~allElements.success
  /\ result' = [result EXCEPT
                  !.errorMessage = <<"Failed to extract PDF elements: ">>
                                     \o allElements.errorMessage]
  /\ pc' = "done"
  /\ UNCHANGED <<rawLines, rawRects, rawTexts, rawImages, allElements, step1,
                 foundMarks, cropMarks>>
  /\ UNCHANGED <<mapVars, sortVars, ocrVars>>

\* result = allElements with the page set to the linesBoundingBox
SimplifiedCopy(all) ==
  [all EXCEPT !.pageX = all.linesBoundingBoxX, !.pageY = all.linesBoundingBoxY,
              !.pageWidth = all.linesBoundingBoxWidth,
              !.pageHeight = all.linesBoundingBoxHeight]

\* "Detected crop box is too small": the message is written into the copy
SimplifiedTooSmall ==
  /\ pc = "extracted"
  /\ allElements.success
  /\ LET copy == SimplifiedCopy(allElements)
     IN  /\ copy.pageWidth < 100 \/ copy.pageHeight < 100
         /\ result' = [copy EXCEPT
                         !.errorMessage =
                           <<"Detected crop box is too small (", copy.pageWidth,
                             " x ", copy.pageHeight, " points). ",
                             "Crop marks may not be correctly detected.">>]
  /\ pc' = "done"
  /\ UNCHANGED <<rawLines, rawRects, rawTexts, rawImages, allElements, step1,
                 foundMarks, cropMarks>>
  /\ UNCHANGED <<mapVars, sortVars, ocrVars>>

\* result.success = true
SimplifiedFinish ==
  /\ pc = "extracted"
  /\ allElements.success
  /\ LET copy == SimplifiedCopy(allElements)
     IN  /\ ~(copy.pageWidth < 100 \/ copy.pageHeight < 100)
         /\ result' = [copy EXCEPT !.success = TRUE]
  /\ pc' = "done"
  /\ UNCHANGED <<rawLines, rawRects, rawTexts, rawImages, allElements, step1,
                 foundMarks, cropMarks>>
  /\ UNCHANGED <<mapVars, sortVars, ocrVars>>

SimplifiedNext ==
  \/ SimplifiedExtract
  \/ SimplifiedExtractFailed
  \/ SimplifiedTooSmall
  \/ SimplifiedFinish

SimplifiedSpec == SimplifiedInit /\ [][SimplifiedNext]_vars

---------------------------------------------------------------------------
(* Shared vocabulary of the properties *)

Classified == pc \in {"detect", "select", "box", "done"}
Searched == pc \in {"select", "box", "done"}
MessageHead(r) == IF Len(r.errorMessage) = 0 THEN "" ELSE r.errorMessage[1]

\* the result carries no crop box
NoCropBox(r) ==
  /\ r.pageX = 0 /\ r.pageY = 0 /\ r.pageWidth = 0 /\ r.pageHeight = 0
  /\ r.linesBoundingBoxX = 0 /\ r.linesBoundingBoxY = 0
  /\ r.linesBoundingBoxWidth = 0 /\ r.linesBoundingBoxHeight = 0

---------------------------------------------------------------------------
(* C1 *)

ExactCorners == {<<10, 10>>, <<490, 10>>, <<10, 690>>, <<490, 690>>}

EndsAt(l, c) ==
  (l.x1 = c[1] * Pt /\ l.y1 = c[2] * Pt) \/ (l.x2 = c[1] * Pt /\ l.y2 = c[2] * Pt)

HorizontalArm(l, c) ==
  EndsAt(l, c) /\ l.y1 = l.y2 /\ l.x1 # l.x2 /\ Abs(l.x1 - l.x2) <= 50 * Pt

VerticalArm(l, c) ==
  EndsAt(l, c) /\ l.x1 = l.x2 /\ l.y1 # l.y2 /\ Abs(l.y1 - l.y2) <= 50 * Pt

\* exactly one horizontal and one vertical arm at each exact corner, nothing else
FourCornerPairs(lines) ==
  /\ Len(lines) = 8
  /\ \A c \in ExactCorners :
       /\ Cardinality({k \in 1..Len(lines) : HorizontalArm(lines[k], c)}) = 1
       /\ Cardinality({k \in 1..Len(lines) : VerticalArm(lines[k], c)}) = 1

\* C1: when the lines handed to stripBleedMarks are four L-shaped pairs at the
\* corners (10,10), (490,10), (10,690), (490,690), each pair within a 50pt
\* box, and no bleed-mark cluster is removed, the call succeeds with the crop
\* box pageX = 10, pageY = 10, pageWidth = 480, pageHeight = 680.
C1_FourCornersCropBox ==
  (pc = "done" /\ FourCornerPairs(allElements.graphicLines)
     /\ step1.rectanglesToRemove = {})
  => /\ result.success
     /\ result.pageX = 10 * Pt /\ result.pageY = 10 * Pt
     /\ result.pageWidth = 480 * Pt /\ result.pageHeight = 680 * Pt

\* four corner pairs with 50pt arms pointing away from the box were processed
C1_Witness ==
  /\ pc = "done" /\ FourCornerPairs(allElements.graphicLines)
  /\ step1.rectanglesToRemove = {}
  /\ \E k \in 1..8 : LineMinX(allElements.graphicLines[k]) < 0
  /\ result.success /\ result.pageWidth = 480 * Pt

---------------------------------------------------------------------------
(* C2 *)

SpanX(marks) ==
  SetMax({marks[k].cropX : k \in 1..Len(marks)})
  - SetMin({marks[k].cropX : k \in 1..Len(marks)})

SpanY(marks) ==
  SetMax({marks[k].cropY : k \in 1..Len(marks)})
  - SetMin({marks[k].cropY : k \in 1..Len(marks)})

FourSelected == pc = "done" /\ Len(foundMarks) >= 4 /\ Len(cropMarks) = 4

\* C2: a successful result has pageWidth >= 100 and pageHeight >= 100; when
\* the four selected marks span less than 100pt in either dimension the call
\* fails with the "crop box is too small" message and carries no crop box.
C2_CropBoxAtLeast100 ==
  /\ result.success =>
       result.pageWidth >= 100 * Pt /\ result.pageHeight >= 100 * Pt
  /\ (FourSelected
        /\ (SpanX(cropMarks) < 100 * Pt \/ SpanY(cropMarks) < 100 * Pt))
     => /\ ~result.success
        /\ MessageHead(result) = "Detected crop box is too small ("
        /\ NoCropBox(result)

\* four marks 99pt apart in height only were rejected
C2_Witness ==
  /\ FourSelected
  /\ SpanX(cropMarks) >= 100 * Pt /\ SpanY(cropMarks) = 99 * Pt
  /\ ~result.success

---------------------------------------------------------------------------
(* C3 *)

WithinY(i, j) ==
  Abs(allElements.rectangles[i].y - allElements.rectangles[j].y) < 2 * Pt

\* the rectangles that open a cluster: those not within 2pt of an earlier opener
Openers ==
  CHOOSE A \in SUBSET (1..Len(allElements.rectangles)) :
    \A i \in 1..Len(allElements.rectangles) :
      i \in A <=> \A a \in A : a < i => ~WithinY(a, i)

\* the cluster of opener a: a and the later rectangles within 2pt of a's Y that
\* no earlier opener has taken
ClusterOf(a) ==
  {a} \cup {j \in (a + 1)..Len(allElements.rectangles) :
              WithinY(a, j) /\ \A b \in Openers : b < a => ~WithinY(b, j)}

InEdgeMargin(y) == y < 50 * Pt \/ y > allElements.pageHeight - 50 * Pt

C3_RemovalReached ==
  /\ Classified
  /\ Cardinality(step1.rectanglesToRemove) = 2
  /\ Len(step1.filteredRectangles) = 1
  /\ \E r \in 1..Len(allElements.rectangles) :
       /\ r \notin step1.rectanglesToRemove
       /\ \E j \in step1.rectanglesToRemove : WithinY(r, j)

---------------------------------------------------------------------------
(* C4 *)

Extracted == pc # "extract"

Within5(a, b) ==
  /\ Abs(a.x - b.x) < 5 * Pt
  /\ Abs(a.y - b.y) < 5 * Pt
  /\ Abs(a.width - b.width) < 5 * Pt
  /\ Abs(a.height - b.height) < 5 * Pt

\* the raw line set is exactly the two horizontal and two vertical sides of
\* the rectangle (0,0)-(100,50), in any order
ExactFrameLines ==
  /\ Len(rawLines) = 4
  /\ {rawLines[k] : k \in 1..4}
       = {PDFLine(0, 0, 100, 0), PDFLine(0, 50, 100, 50),
          PDFLine(0, 0, 0, 50), PDFLine(100, 0, 100, 50)}

NearFrame(rects) ==
  {k \in 1..Len(rects) : Within5(rects[k], PDFRectangle(0, 0, 100, 50))}

\* C4: for exactly the four sides of (0,0)-(100,50) the rectangle list after
\* reconstruction holds exactly one rectangle within 5pt of (0,0,100,50), both
\* with no directly-extracted rectangle and with a directly-extracted one
\* within 5pt already in the list; and no synthetic rectangle is appended
\* within 5pt (x, y, width, height) of a rectangle already in the list.
C4_NoDuplicateRectangle ==
  Extracted =>
    /\ (ExactFrameLines /\ (rawRects = <<>> \/ NearFrame(rawRects) # {}))
       => Cardinality(NearFrame(allElements.rectangles)) = 1
    /\ \A k \in (Len(rawRects) + 1)..Len(allElements.rectangles) :
         \A j \in 1..(k - 1) :
           ~Within5(allElements.rectangles[j], allElements.rectangles[k])

\* the part of C4 the code keeps: with no directly-extracted rectangle the four
\* sides give exactly the one rectangle (0,0,100,50)
C4_OneRectangleFromLinesAlone ==
  (Extracted /\ ExactFrameLines /\ rawRects = <<>>)
  => allElements.rectangles = <<PDFRectangle(0, 0, 100, 50)>>

C4_LinesAloneReached == Extracted /\ ExactFrameLines /\ rawRects = <<>>

---------------------------------------------------------------------------
(* C5 *)

\* numerators of the two-line determinant formula
NumX(a, b) ==
  (a.x1 * a.y2 - a.y1 * a.x2) * (b.x1 - b.x2)
  - (a.x1 - a.x2) * (b.x1 * b.y2 - b.y1 * b.x2)

NumY(a, b) ==
  (a.x1 * a.y2 - a.y1 * a.x2) * (b.y1 - b.y2)
  - (a.y1 - a.y2) * (b.x1 * b.y2 - b.y1 * b.x2)

\* (x, y) is the intersection of the lines through a and through b
IsIntersection(x, y, a, b) ==
  /\ Denom(a, b) # 0
  /\ x * Denom(a, b) = NumX(a, b)
  /\ y * Denom(a, b) = NumY(a, b)

MarkLine1(m) == step1.filteredLines[m.line1Idx]
MarkLine2(m) == step1.filteredLines[m.line2Idx]

\* the line of a mark the code takes as horizontal, and the other one
TakenHorizontal(m) ==
  IF Abs(MarkLine1(m).y2 - MarkLine1(m).y1) < Abs(MarkLine1(m).x2 - MarkLine1(m).x1)
  THEN MarkLine1(m) ELSE MarkLine2(m)

TakenVertical(m) ==
  IF Abs(MarkLine1(m).y2 - MarkLine1(m).y1) < Abs(MarkLine1(m).x2 - MarkLine1(m).x1)
  THEN MarkLine2(m) ELSE MarkLine1(m)

Recorded(i, j) ==
  \E k \in 1..Len(foundMarks) :
    foundMarks[k].line1Idx = i /\ foundMarks[k].line2Idx = j

\* C5 as stated: each recorded candidate carries as (cropX, cropY) the
\* intersection point of its two lines extended to infinity (two-line
\* determinant formula), and pairs with zero determinant are not recorded.
C5_CropPointIsIntersection ==
  Searched =>
    \A k \in 1..Len(foundMarks) :
      IsIntersection(foundMarks[k].cropX, foundMarks[k].cropY,
                     MarkLine1(foundMarks[k]), MarkLine2(foundMarks[k]))

\* C5 as amended: each recorded candidate carries the closest-endpoint point:
\* cropX is the mid X of the line taken as vertical; cropY is the vertical's
\* endpoint Y nearest the horizontal's mid Y when that Y lies within the
\* vertical's Y range, the horizontal's mid Y when the vertical lies entirely
\* at larger Y, and the vertical's largest Y when it lies entirely at smaller
\* Y.  The point is the extended-line intersection when both lines are
\* axis-parallel and the vertical ends on the horizontal's Y or lies entirely
\* at larger Y.  Pairs with zero determinant are not recorded.
C5_CropPointIsClosestEndpoint ==
  Searched =>
    /\ \A k \in 1..Len(foundMarks) :
         LET m == foundMarks[k]
             h == TakenHorizontal(m)
             v == TakenVertical(m)
             hy2 == h.y1 + h.y2
             inside == 2 * LineMinY(v) <= hy2 /\ hy2 <= 2 * LineMaxY(v)
         IN  /\ Denom(MarkLine1(m), MarkLine2(m)) # 0
             /\ 2 * m.cropX = v.x1 + v.x2
             /\ inside =>
                  /\ m.cropY \in {v.y1, v.y2}
                  /\ \A e \in {v.y1, v.y2} :
                       Abs(2 * m.cropY - hy2) <= Abs(2 * e - hy2)
             /\ 2 * LineMinY(v) > hy2 => 2 * m.cropY = hy2
             /\ 2 * LineMaxY(v) < hy2 => m.cropY = LineMaxY(v)
             /\ (/\ h.y1 = h.y2 /\ v.x1 = v.x2
                 /\ (h.y1 \in {v.y1, v.y2} \/ LineMinY(v) > h.y1))
                => IsIntersection(m.cropX, m.cropY, MarkLine1(m), MarkLine2(m))
    /\ \A i, j \in 1..Len(step1.filteredLines) :
         (i < j /\ Denom(step1.filteredLines[i], step1.filteredLines[j]) = 0)
         => ~Recorded(i, j)

\* the pair search recorded a candidate whose point is not the intersection of
\* its lines, and passed over a pair that is perpendicular by angle and close
\* but has zero determinant
C5_Witness ==
  /\ Searched
  /\ \E k \in 1..Len(foundMarks) :
       ~IsIntersection(foundMarks[k].cropX, foundMarks[k].cropY,
                       MarkLine1(foundMarks[k]), MarkLine2(foundMarks[k]))
  /\ \E i, j \in 1..Len(step1.filteredLines) :
       /\ i < j
       /\ IsPerpendicular(step1.filteredLines[i], step1.filteredLines[j])
       /\ BoxSize(step1.filteredLines[i], step1.filteredLines[j]) <= 50 * Pt
       /\ Denom(step1.filteredLines[i], step1.filteredLines[j]) = 0
       /\ ~Recorded(i, j)

---------------------------------------------------------------------------
(* C6 *)

\* the corner reduction has run on more than 4 candidates
Reduced == pc \in {"box", "done"} /\ Len(foundMarks) > 4

RECURSIVE SumTo(_, _)
SumTo(f, k) == IF k = 0 THEN 0 ELSE f[k] + SumTo(f, k - 1)

\* <<isLeft, isTop>> of a candidate about the centroid of all candidate points
CentroidQuadrant(m) ==
  LET n == Len(foundMarks)
  IN  <<n * m.cropX < SumTo([k \in 1..n |-> foundMarks[k].cropX], n),
        n * m.cropY < SumTo([k \in 1..n |-> foundMarks[k].cropY], n)>>

\* <<isLeft, isTop>> of a candidate about the middle of the candidates'
\* bounding box
MidpointQuadrant(m) ==
  LET xs == {foundMarks[k].cropX : k \in 1..Len(foundMarks)}
      ys == {foundMarks[k].cropY : k \in 1..Len(foundMarks)}
  IN  <<2 * m.cropX < SetMin(xs) + SetMax(xs),
        2 * m.cropY < SetMin(ys) + SetMax(ys)>>

\* what a quadrant minimises: top-left x+y, top-right -(x-y), bottom-left
\* -(y-x), bottom-right -(x+y)
Objective(q, m) ==
  IF q[1] /\ q[2] THEN m.cropX + m.cropY
  ELSE IF q[2] THEN m.cropY - m.cropX
  ELSE IF q[1] THEN m.cropX - m.cropY
  ELSE 0 - (m.cropX + m.cropY)

\* cropMarks holds, for every quadrant (as Q assigns them) that has a
\* candidate, exactly one candidate of that quadrant and it is extreme there,
\* the first found among equals; and nothing else
ReducedBy(Q(_)) ==
  /\ \A s \in 1..Len(cropMarks) :
       \E k \in 1..Len(foundMarks) : foundMarks[k] = cropMarks[s]
  /\ \A q \in BOOLEAN \X BOOLEAN :
       LET members == {k \in 1..Len(foundMarks) : Q(foundMarks[k]) = q}
           chosen == {s \in 1..Len(cropMarks) : Q(cropMarks[s]) = q}
       IN  IF members = {} THEN chosen = {}
           ELSE /\ Cardinality(chosen) = 1
                /\ \A s \in chosen :
                     \E k \in members :
                       /\ foundMarks[k] = cropMarks[s]
                       /\ \A j \in members :
                            /\ Objective(q, foundMarks[k]) <= Objective(q, foundMarks[j])
                            /\ j < k => Objective(q, foundMarks[k])
                                          < Objective(q, foundMarks[j])

---------------------------------------------------------------------------
(* C7 *)

\* C7: success = true only when exactly 4 crop marks were selected; with fewer
\* than 4 candidates from the pair search the call fails with "Could not find
\* 4 crop marks. Found: n", and when the corner reduction leaves a number other
\* than 4 it fails with "Could not identify exactly 4 crop marks"; in both
\* cases no crop box is returned.
C7_SuccessOnlyWithFourMarks ==
  /\ result.success => (pc = "done" /\ Len(cropMarks) = 4)
  /\ (pc = "done" /\ Len(foundMarks) < 4)
     => /\ ~result.success
        /\ result.errorMessage
             = <<"Could not find 4 crop marks. Found: ", Len(foundMarks)>>
        /\ NoCropBox(result)
  /\ (pc = "done" /\ Len(foundMarks) >= 4 /\ Len(cropMarks) # 4)
     => /\ ~result.success
        /\ MessageHead(result) = "Could not identify exactly 4 crop marks"
        /\ NoCropBox(result)

\* more than 4 candidates were found and the reduction left fewer than 4
C7_Witness ==
  /\ pc = "done"
  /\ Len(foundMarks) > 4
  /\ Len(cropMarks) < 4
  /\ ~result.success

\* fewer than 4 candidates, at least one, were found
C7_InsufficientReached ==
  pc = "done" /\ Len(foundMarks) \in 1..3 /\ ~result.success

---------------------------------------------------------------------------
(* C8 *)

\* positions in the bleed-filtered line set of the lines that form the
\* selected marks
Contributing ==
  {cropMarks[k].line1Idx : k \in 1..Len(cropMarks)}
  \cup {cropMarks[k].line2Idx : k \in 1..Len(cropMarks)}

Surviving == {p \in 1..Len(step1.filteredLines) : p \notin Contributing}

\* C8: on success the returned lines are the bleed-filtered lines minus the two
\* contributing lines of each of the 4 selected marks: the line at every
\* contributing position is left out, the line at every other position is
\* present, and the lines kept stand in their original relative order.
C8_OutputLinesMinusCropMarkLines ==
  result.success =>
    /\ Len(cropMarks) = 4
    /\ Contributing \subseteq 1..Len(step1.filteredLines)
    /\ Len(result.graphicLines) = Cardinality(Surviving)
    /\ result.graphicLineCount = Cardinality(Surviving)
    /\ \A p \in Surviving :
         result.graphicLines[Cardinality({q \in Surviving : q <= p})]
           = step1.filteredLines[p]

\* a success in which a line that forms no selected mark stands between lines
\* that do, and is returned
C8_Witness ==
  /\ result.success
  /\ \E p \in Surviving :
       /\ \E a \in Contributing : a < p
       /\ \E b \in Contributing : b > p
  /\ Cardinality(Contributing) = 8

---------------------------------------------------------------------------
(* C9 *)

WithinCornerMargin(l) ==
  LET loX == Min(l.x1, l.x2)
      hiX == Max(l.x1, l.x2)
      loY == Min(l.y1, l.y2)
      hiY == Max(l.y1, l.y2)
      W == allElements.pageWidth
      H == allElements.pageHeight
  IN  \/ loX < 100 * Pt /\ loY < 100 * Pt
      \/ hiX > W - 100 * Pt /\ loY < 100 * Pt
      \/ loX < 100 * Pt /\ hiY > H - 100 * Pt
      \/ hiX > W - 100 * Pt /\ hiY > H - 100 * Pt

\* the bounding box of line l overlaps the X and Y ranges of removed cluster g
\* within 2pt
OverlapsCluster(l, g) ==
  LET R == {allElements.rectangles[g[k]] : k \in 1..Len(g)}
  IN  /\ \E r \in R : Min(l.x1, l.x2) <= r.x + r.width + 2 * Pt
      /\ \E r \in R : Max(l.x1, l.x2) >= r.x - 2 * Pt
      /\ \E r \in R : Min(l.y1, l.y2) <= r.y + r.height + 2 * Pt
      /\ \E r \in R : Max(l.y1, l.y2) >= r.y - 2 * Pt

OverlapsRemovedCluster(l) ==
  \E g \in 1..Len(step1.rectangleGroups) :
    OverlapsCluster(l, step1.rectangleGroups[g])

\* C9: the Mark Classifier never removes a line within the 100pt corner margin
\* of one of the four page corners, even when its bounding box overlaps a
\* removed cluster's X and Y ranges within 2pt; a line outside every corner
\* margin is removed exactly when its bounding box overlaps some removed
\* cluster's X and Y ranges within 2pt.
C9_CornerLinesProtected ==
  Classified =>
    /\ \A k \in 1..Len(allElements.graphicLines) :
         IF WithinCornerMargin(allElements.graphicLines[k])
         THEN k \notin step1.linesToRemove
         ELSE k \in step1.linesToRemove
              <=> OverlapsRemovedCluster(allElements.graphicLines[k])
    /\ Len(step1.filteredLines)
         = Len(allElements.graphicLines) - Cardinality(step1.linesToRemove)

\* a line in a corner margin overlaps a removed cluster and is kept
C9_Witness ==
  /\ Classified
  /\ \E k \in 1..Len(allElements.graphicLines) :
       /\ WithinCornerMargin(allElements.graphicLines[k])
       /\ OverlapsRemovedCluster(allElements.graphicLines[k])
       /\ k \notin step1.linesToRemove
       /\ \E p \in 1..Len(step1.filteredLines) :
            step1.filteredLines[p] = allElements.graphicLines[k]

\* a line outside the corner margins overlaps a removed cluster and is removed
C9_RemovalReached ==
  /\ Classified
  /\ \E k \in step1.linesToRemove :
       ~WithinCornerMargin(allElements.graphicLines[k])

---------------------------------------------------------------------------
(* C10 *)

\* out[i..] is found, in order, within in[j..]
RECURSIVE IsSubseqFrom(_, _, _, _)
IsSubseqFrom(out, in, i, j) ==
  IF i > Len(out) THEN TRUE
  ELSE IF j > Len(in) THEN FALSE
  ELSE IF out[i] = in[j] THEN IsSubseqFrom(out, in, i + 1, j + 1)
  ELSE IsSubseqFrom(out, in, i, j + 1)

IsSubseq(out, in) == IsSubseqFrom(out, in, 1, 1)

\* C10: stripBleedMarks only filters primitives: the output graphicLines are
\* extracted lines with every field unchanged, the output rectangles are
\* unmodified extracted rectangles, both in their original relative order
\* (also after the bleed-mark filter alone), and the output of a successful
\* call carries the extracted text lines and images unchanged.
C10_OnlyFilters ==
  /\ Classified =>
       /\ IsSubseq(step1.filteredLines, allElements.graphicLines)
       /\ IsSubseq(step1.filteredRectangles, allElements.rectangles)
  /\ IsSubseq(result.graphicLines, allElements.graphicLines)
  /\ IsSubseq(result.rectangles, allElements.rectangles)
  /\ result.success =>
       /\ result.textLines = allElements.textLines
       /\ result.textLineCount = allElements.textLineCount
       /\ result.images = allElements.images
       /\ result.imageCount = allElements.imageCount

\* a success that filtered rectangles and lines away, returned some of each,
\* and carried text and images
C10_Witness ==
  /\ result.success
  /\ Len(result.textLines) > 0 /\ Len(result.images) > 0
  /\ Len(result.graphicLines) \in 1..(Len(allElements.graphicLines) - 1)
  /\ Len(result.rectangles) \in 1..(Len(allElements.rectangles) - 1)

---------------------------------------------------------------------------
(* Vocabulary of the createRelativeMap properties *)

\* the conversion loops have run
Converted == mapPc \in {"mark", "align"} \/ (mapPc = "done" /\ mapResult.success)

\* the boxes createRelativeMap converts, in the order of result.elements
TextBoxes ==
  LET kept == SelectSeq(elements.textLines, IsRetainedText)
  IN  [k \in 1..Len(kept) |-> kept[k].boundingBox]

ImageBoxes ==
  [k \in 1..Len(elements.images) |->
     [x |-> elements.images[k].x, y |-> elements.images[k].y,
      width |-> elements.images[k].displayWidth,
      height |-> elements.images[k].displayHeight]]

ConvertedBoxes == TextBoxes \o ImageBoxes

---------------------------------------------------------------------------
(* C11 *)

\* C11, as claimed: every retained text element and image with box
\* (x, y, w, h) is converted to relativeX = (x + w/2 - minX)/width,
\* relativeY = (y + h/2 - minY)/height, relativeWidth = w/width,
\* relativeHeight = h/height
C11_CentreOverBounds ==
  Converted =>
    /\ Len(mapResult.elements) = Len(ConvertedBoxes)
    /\ \A k \in 1..Len(ConvertedBoxes) :
         LET b == ConvertedBoxes[k]
             e == mapResult.elements[k]
         IN  /\ e.relativeX = Rat(2 * b.x + b.width - 2 * mapResult.boundsX,
                                  2 * mapResult.boundsWidth)
             /\ e.relativeY = Rat(2 * b.y + b.height - 2 * mapResult.boundsY,
                                  2 * mapResult.boundsHeight)
             /\ e.relativeWidth = Rat(b.width, mapResult.boundsWidth)
             /\ e.relativeHeight = Rat(b.height, mapResult.boundsHeight)

\* C11, amended: every image and every text element that is not mostly
\* underscores is converted to relativeX = (x + w/2 - minX)/width,
\* relativeY = 1 - (y + h/2 - minY)/height (the Y axis is turned to the
\* top-left origin), relativeWidth = w/width, relativeHeight = h/height
C11_CentreOverBoundsYTurned ==
  Converted =>
    /\ Len(mapResult.elements) = Len(ConvertedBoxes)
    /\ \A k \in 1..Len(ConvertedBoxes) :
         LET b == ConvertedBoxes[k]
             e == mapResult.elements[k]
         IN  /\ e.relativeX = Rat(2 * b.x + b.width - 2 * mapResult.boundsX,
                                  2 * mapResult.boundsWidth)
             /\ e.relativeY = Rat(2 * mapResult.boundsHeight
                                    - (2 * b.y + b.height - 2 * mapResult.boundsY),
                                  2 * mapResult.boundsHeight)
             /\ e.relativeWidth = Rat(b.width, mapResult.boundsWidth)
             /\ e.relativeHeight = Rat(b.height, mapResult.boundsHeight)

\* a text and an image converted against bounds of positive size, the text
\* off the vertical middle
C11_Witness ==
  /\ Converted
  /\ mapResult.boundsWidth > 0 /\ mapResult.boundsHeight > 0
  /\ \E k \in 1..Len(mapResult.elements) :
       /\ mapResult.elements[k].type = "TEXT"
       /\ 2 * mapResult.elements[k].relativeY.n # mapResult.elements[k].relativeY.d
  /\ \E k \in 1..Len(mapResult.elements) : mapResult.elements[k].type = "IMAGE"

---------------------------------------------------------------------------
(* C12 *)

\* a quotient in [0, 1], in (0, 1]
InUnit(r) == r.d > 0 /\ 0 <= r.n /\ r.n <= r.d

InUnitPositive(r) == r.d > 0 /\ 0 < r.n /\ r.n <= r.d

\* the bounds are the bounding box of the text lines and images
BoundsFromElements ==
  /\ boundsMode # "USE_LARGEST_RECTANGLE"
  /\ ~(elements.linesBoundingBoxWidth > 0 /\ elements.linesBoundingBoxHeight > 0)

\* C12, as claimed: every RelativeElement has relativeX and relativeY in
\* [0,1] and relativeWidth and relativeHeight in (0,1], for every input and
\* in every bounds mode
C12_UnitRange ==
  Converted =>
    \A k \in 1..Len(mapResult.elements) :
      LET e == mapResult.elements[k]
      IN  /\ InUnit(e.relativeX) /\ InUnit(e.relativeY)
          /\ InUnitPositive(e.relativeWidth) /\ InUnitPositive(e.relativeHeight)

\* C12, amended: relativeX (relativeY) is in [0,1] exactly when the bounds
\* have positive width (height) and the centre of the box lies within them,
\* relativeWidth (relativeHeight) is in (0,1] exactly when the box has a
\* positive width (height) not above that of the bounds; when the bounds are
\* the bounding box of the text lines and images and have positive width and
\* height, every element has relativeX, relativeY in [0,1] and relativeWidth,
\* relativeHeight in [0,1], 0 for a box of no extent
C12_UnitRangeInsideBounds ==
  Converted =>
    LET W == mapResult.boundsWidth
        H == mapResult.boundsHeight
        minX == mapResult.boundsX
        minY == mapResult.boundsY
    IN  \A k \in 1..Len(ConvertedBoxes) :
          LET b == ConvertedBoxes[k]
              e == mapResult.elements[k]
          IN  /\ InUnit(e.relativeX) <=>
                   (W > 0 /\ 2 * minX <= 2 * b.x + b.width
                          /\ 2 * b.x + b.width <= 2 * (minX + W))
              /\ InUnit(e.relativeY) <=>
                   (H > 0 /\ 2 * minY <= 2 * b.y + b.height
                          /\ 2 * b.y + b.height <= 2 * (minY + H))
              /\ InUnitPositive(e.relativeWidth) <=>
                   (W > 0 /\ 0 < b.width /\ b.width <= W)
              /\ InUnitPositive(e.relativeHeight) <=>
                   (H > 0 /\ 0 < b.height /\ b.height <= H)
              /\ (BoundsFromElements /\ W > 0 /\ H > 0) =>
                   /\ InUnit(e.relativeX) /\ InUnit(e.relativeY)
                   /\ InUnit(e.relativeWidth) /\ InUnit(e.relativeHeight)
                   /\ (e.relativeWidth.n = 0 <=> b.width = 0)
                   /\ (e.relativeHeight.n = 0 <=> b.height = 0)

\* a text and an image converted against their own bounding box
C12_Witness ==
  /\ Converted
  /\ BoundsFromElements
  /\ mapResult.boundsWidth > 0 /\ mapResult.boundsHeight > 0
  /\ \E k \in 1..Len(mapResult.elements) :
       mapResult.elements[k].type = "TEXT" /\ mapResult.elements[k].relativeWidth.n > 0
  /\ \E k \in 1..Len(mapResult.elements) :
       mapResult.elements[k].type = "IMAGE" /\ mapResult.elements[k].relativeWidth.n = 0

\* an element outside bounds that come from the largest rectangle
C12_OutsideReached ==
  /\ Converted
  /\ boundsMode = "USE_LARGEST_RECTANGLE"
  /\ mapResult.boundsWidth > 0 /\ mapResult.boundsHeight > 0
  /\ \E k \in 1..Len(mapResult.elements) : ~InUnit(mapResult.elements[k].relativeX)

---------------------------------------------------------------------------
(* C13 *)

\* minX + (rel - relSize/2) * size, the corner from the centre
CornerFrom(min, rel, relSize, size) ==
  RatAdd(RatInt(min),
         RatMul(RatSub(rel, RatDiv(relSize, RatInt(2))), RatInt(size)))

\* the inverse of the claim
InverseAsClaimed(e, res) ==
  [x |-> CornerFrom(res.boundsX, e.relativeX, e.relativeWidth, res.boundsWidth),
   y |-> CornerFrom(res.boundsY, e.relativeY, e.relativeHeight, res.boundsHeight),
   width |-> RatMul(e.relativeWidth, RatInt(res.boundsWidth)),
   height |-> RatMul(e.relativeHeight, RatInt(res.boundsHeight))]

\* the inverse with the Y axis turned back: 1 - relativeY for relativeY
InverseYTurned(e, res) ==
  [x |-> CornerFrom(res.boundsX, e.relativeX, e.relativeWidth, res.boundsWidth),
   y |-> CornerFrom(res.boundsY, RatSub(RatInt(1), e.relativeY),
                    e.relativeHeight, res.boundsHeight),
   width |-> RatMul(e.relativeWidth, RatInt(res.boundsWidth)),
   height |-> RatMul(e.relativeHeight, RatInt(res.boundsHeight))]

BoxAsRat(b) ==
  [x |-> RatInt(b.x), y |-> RatInt(b.y),
   width |-> RatInt(b.width), height |-> RatInt(b.height)]

PositiveBounds == mapResult.boundsWidth > 0 /\ mapResult.boundsHeight > 0

\* C13, as claimed: x = minX + (relativeX - relativeWidth/2) * width,
\* y = minY + (relativeY - relativeHeight/2) * height, w = relativeWidth *
\* width, h = relativeHeight * height recovers the original bounding box
C13_RoundTrip ==
  (Converted /\ PositiveBounds) =>
    \A k \in 1..Len(ConvertedBoxes) :
      InverseAsClaimed(mapResult.elements[k], mapResult) = BoxAsRat(ConvertedBoxes[k])

\* C13, amended: for bounds of positive width and height the inverse with
\* y = minY + (1 - relativeY - relativeHeight/2) * height recovers the
\* original bounding box; for bounds of no width or no height the relative
\* centre is the quotient of a division by zero
C13_RoundTripYTurned ==
  /\ (Converted /\ PositiveBounds) =>
       \A k \in 1..Len(ConvertedBoxes) :
         InverseYTurned(mapResult.elements[k], mapResult) = BoxAsRat(ConvertedBoxes[k])
  /\ (Converted /\ ~PositiveBounds) =>
       \A k \in 1..Len(ConvertedBoxes) :
         mapResult.elements[k].relativeX.d = 0 \/ mapResult.elements[k].relativeY.d = 0

\* two boxes converted, one of them outside the bounds
C13_Witness ==
  /\ Converted /\ PositiveBounds
  /\ Len(mapResult.elements) >= 2
  /\ \E k \in 1..Len(mapResult.elements) : ~InUnit(mapResult.elements[k].relativeX)
  /\ \E k \in 1..Len(mapResult.elements) :
       2 * mapResult.elements[k].relativeY.n # mapResult.elements[k].relativeY.d

---------------------------------------------------------------------------
(* C14 *)

\* every pair satisfies pixel = relative * size + origin exactly
ConsistentWith(ms, g) ==
  \A k \in 1..Len(ms) : ms[k] = PairUnder(g, <<ms[k].relCentreX, ms[k].relCentreY>>, 0)

SameRelativeX(ms) == \A i, j \in 1..Len(ms) : ms[i].relCentreX = ms[j].relCentreX

SameRelativeY(ms) == \A i, j \in 1..Len(ms) : ms[i].relCentreY = ms[j].relCentreY

NonDegenerate(ms) == Len(ms) >= 2 /\ ~SameRelativeX(ms) /\ ~SameRelativeY(ms)

\* the rectangle holds exactly the values of g
IsRect(rect, g) ==
  /\ RatInt(rect.x) = g.cropX /\ RatInt(rect.y) = g.cropY
  /\ RatInt(rect.width) = g.cropWidth /\ RatInt(rect.height) = g.cropHeight

\* |k - a| <= 1/2
WithinHalf(k, a) ==
  /\ 2 * a.n - a.d <= 2 * k * a.d
  /\ 2 * k * a.d <= 2 * a.n + a.d

\* the rectangle holds the values of g to the nearest integer
IsRectRounded(rect, g) ==
  /\ WithinHalf(rect.x, g.cropX) /\ WithinHalf(rect.y, g.cropY)
  /\ WithinHalf(rect.width, g.cropWidth) /\ WithinHalf(rect.height, g.cropHeight)

ZeroResiduals(out) ==
  \A k \in 1..Len(out.residualsSquared) : out.residualsSquared[k].n = 0

\* C14, as claimed: any 2 or more exactly consistent non-degenerate pairs
\* make the solver return true with the generating crop rectangle and zero
\* residual (three pairs under width 800, height 600, x 50, y 20 among them)
C14_RecoversGeneratingRect ==
  mapPc = "solved" =>
    \A g \in GeneratingRects :
      (ConsistentWith(matches, g) /\ NonDegenerate(matches)) =>
        /\ solved.value
        /\ IsRect(cropRect, g)
        /\ ZeroResiduals(solved)

\* C14, amended: 2 or more exactly consistent non-degenerate pairs make the
\* solver return true with zero residual and the generating rectangle, each
\* value to the nearest integer, when the generating width and height are
\* both above 10; when either is below 10 it returns false and leaves the
\* rectangle as it was
C14_RecoversRectOfValidSize ==
  [][ mapPc = "solve" =>
        \A g \in GeneratingRects :
          (ConsistentWith(matches, g) /\ NonDegenerate(matches)) =>
            /\ (RatLess(RatInt(10), g.cropWidth) /\ RatLess(RatInt(10), g.cropHeight)) =>
                 /\ solved'.value
                 /\ IsRectRounded(cropRect', g)
                 /\ (g.cropX.d = 1 /\ g.cropY.d = 1 /\ g.cropWidth.d = 1
                       /\ g.cropHeight.d = 1) => IsRect(cropRect', g)
                 /\ ZeroResiduals(solved')
            /\ (RatLess(g.cropWidth, RatInt(10)) \/ RatLess(g.cropHeight, RatInt(10))) =>
                 /\ ~solved'.value
                 /\ cropRect' = cropRect ]_vars

\* the three pairs under 800, 600, 50, 20 solved
C14_Witness ==
  /\ mapPc = "solved"
  /\ Len(matches) = 3
  /\ NonDegenerate(matches)
  /\ ConsistentWith(matches, [cropWidth |-> Rat(800, 1), cropHeight |-> Rat(600, 1),
                              cropX |-> Rat(50, 1), cropY |-> Rat(20, 1)])
  /\ solved.value
  /\ cropRect = [x |-> 50, y |-> 20, width |-> 800, height |-> 600]
  /\ ZeroResiduals(solved)

\* consistent pairs under a rectangle 5 pixels wide, rejected
C14_TooSmallReached ==
  /\ mapPc = "solved"
  /\ NonDegenerate(matches)
  /\ ConsistentWith(matches, [cropWidth |-> Rat(5, 1), cropHeight |-> Rat(600, 1),
                              cropX |-> Rat(50, 1), cropY |-> Rat(20, 1)])
  /\ ~solved.value

---------------------------------------------------------------------------
(* C15 *)

\* C15: when all pairs share relativeX, or all share relativeY, or there are
\* fewer than 2 pairs, the solver returns false and leaves cropRect unmodified
C15_SingularLeavesRect ==
  [][ (mapPc = "solve"
         /\ (Len(matches) < 2 \/ SameRelativeX(matches) \/ SameRelativeY(matches))) =>
        /\ ~solved'.value
        /\ cropRect' = cropRect ]_vars

\* two pairs with one relativeX and different relativeY refused, the caller's
\* rectangle holding an earlier value
C15_Witness ==
  /\ mapPc = "solved"
  /\ Len(matches) = 2
  /\ SameRelativeX(matches) /\ ~SameRelativeY(matches)
  /\ ~solved.value
  /\ cropRect = [x |-> 7, y |-> 8, width |-> 9, height |-> 11]

\* one pair refused
C15_TooFewReached ==
  /\ mapPc = "solved" /\ Len(matches) = 1 /\ ~solved.value

---------------------------------------------------------------------------
(* C16 *)

\* the call has returned after the alignment against a loaded target image
AlignmentDone ==
  /\ mapPc = "done"
  /\ markToFile # "" /\ Loadable(markToFile)
  /\ ReferenceBounds(elements, boundsMode).found

\* the catch handler has run
Thrown == mapResult.errorMessage = "Error creating relative map: cv::Exception"

CompleteList == mapResult.elements = RelativeElements(elements, mapResult)

\* C16, as claimed: when the alignment is requested and no text element
\* matches any OCR word, createRelativeMap reports failure and still returns
\* the complete unsolved list
C16_NoMatchReportsFailure ==
  (AlignmentDone /\ matches = <<>>) =>
    /\ ~mapResult.success
    /\ CompleteList

\* C16, amended: when the alignment is requested and no text element matches
\* any OCR word, createRelativeMap returns success with an empty
\* errorMessage and the complete unsolved list, unless an exception is
\* caught; no crop rectangle is solved
C16_NoMatchStillSucceeds ==
  (AlignmentDone /\ matches = <<>> /\ ~Thrown) =>
    /\ mapResult.success
    /\ mapResult.errorMessage = ""
    /\ CompleteList
    /\ solved = "none" /\ cropRect = DefaultRect

\* words were detected, texts were converted, none matched
C16_Witness ==
  /\ AlignmentDone /\ matches = <<>> /\ ~Thrown
  /\ ocrWords # <<>>
  /\ \E k \in 1..Len(mapResult.elements) :
       /\ mapResult.elements[k].type = "TEXT"
       /\ Len(normaliseForMatch(mapResult.elements[k].text)) >= 2

---------------------------------------------------------------------------
(* C17 *)

\* the matching loop has run
Matched ==
  /\ markToFile # "" /\ Loadable(markToFile)
  /\ mapPc = "align" \/ (mapPc = "done" /\ mapResult.success)

\* the normalised texts are equal, or one contains the other and the shorter
\* has 4 characters or more
EqualOrContained(a, b) ==
  \/ a = b
  \/ /\ Find(a, b) \/ Find(b, a)
     /\ Min(Len(a), Len(b)) >= 4

\* the first OCR word in detection order that the element matches, 0 for none
FirstWord(e) ==
  LET hits == {w \in 1..Len(ocrWords) :
                 EqualOrContained(normaliseForMatch(e.text),
                                  normaliseForMatch(ocrWords[w].text))}
  IN  IF e.type # "TEXT" \/ Len(normaliseForMatch(e.text)) < 2 \/ hits = {}
      THEN 0
      ELSE CHOOSE w \in hits : \A v \in hits : w <= v

\* element k's pair: its relative centre with the centre of its first word
PairOf(k) ==
  LET e == mapResult.elements[k]
      w == ocrWords[FirstWord(e)]
  IN  [relCentreX |-> e.relativeX, relCentreY |-> e.relativeY,
       ocrCentreX |-> Rat(2 * w.x + w.width, 2),
       ocrCentreY |-> Rat(2 * w.y + w.height, 2)]

\* C17: a text element yields at most one MatchedPair, that of the first OCR
\* word in detection order whose normalised text equals its own, contains it
\* or is contained in it (the shorter of 4 characters or more); an element
\* whose normalised text has fewer than 2 characters yields none
C17_FirstMatchPerElement ==
  Matched =>
    LET paired == {k \in 1..Len(mapResult.elements) :
                     FirstWord(mapResult.elements[k]) # 0}
    IN  /\ Len(matches) = Cardinality(paired)
        /\ \A k \in paired :
             matches[Cardinality({j \in paired : j <= k})] = PairOf(k)
        /\ \A k \in 1..Len(mapResult.elements) :
             Len(normaliseForMatch(mapResult.elements[k].text)) < 2 => k \notin paired

\* an element that two detected words match, paired with the first
C17_Witness ==
  /\ Matched
  /\ Len(matches) >= 1
  /\ Len(ocrWords) >= 2
  /\ \E k \in 1..Len(mapResult.elements) :
       /\ FirstWord(mapResult.elements[k]) = 1
       /\ EqualOrContained(normaliseForMatch(mapResult.elements[k].text),
                           normaliseForMatch(ocrWords[2].text))
       /\ normaliseForMatch(ocrWords[1].text) # normaliseForMatch(ocrWords[2].text)

\* a one-letter text whose letter was detected, not paired
C17_ShortTextReached ==
  /\ Matched
  /\ matches = <<>>
  /\ \E k \in 1..Len(mapResult.elements) : \E w \in 1..Len(ocrWords) :
       /\ mapResult.elements[k].type = "TEXT"
       /\ Len(normaliseForMatch(mapResult.elements[k].text)) = 1
       /\ normaliseForMatch(mapResult.elements[k].text) = normaliseForMatch(ocrWords[w].text)

\* a 3-letter text inside a longer detected word, not paired
C17_ShortContainedReached ==
  /\ Matched
  /\ matches = <<>>
  /\ \E k \in 1..Len(mapResult.elements) : \E w \in 1..Len(ocrWords) :
       /\ mapResult.elements[k].type = "TEXT"
       /\ Len(normaliseForMatch(mapResult.elements[k].text)) = 3
       /\ Find(normaliseForMatch(ocrWords[w].text),
               normaliseForMatch(mapResult.elements[k].text))

---------------------------------------------------------------------------
(* C18 *)

\* the bounds selection is over, in USE_LARGEST_RECTANGLE mode
LargestRectangleModeDone == boundsMode = "USE_LARGEST_RECTANGLE" /\ mapPc # "bounds"

BoundsAre(x, y, w, h) ==
  /\ mapResult.boundsX = x /\ mapResult.boundsY = y
  /\ mapResult.boundsWidth = w /\ mapResult.boundsHeight = h

\* the call returned at the bounds selection with a message
FailedAtBounds ==
  /\ mapPc = "done" /\ ~mapResult.success /\ ~Thrown
  /\ mapResult.errorMessage # ""
  /\ mapResult.elements = <<>>

RectArea(r) == r.width * r.height

ImageArea(i) == i.displayWidth * i.displayHeight

\* the positions of the rectangles (images) of the largest area
LargestRectangles ==
  {k \in 1..Len(elements.rectangles) :
     \A j \in 1..Len(elements.rectangles) :
       RectArea(elements.rectangles[j]) <= RectArea(elements.rectangles[k])}

LargestImages ==
  {k \in 1..Len(elements.images) :
     \A j \in 1..Len(elements.images) :
       ImageArea(elements.images[j]) <= ImageArea(elements.images[k])}

C18_ImageReached ==
  /\ LargestRectangleModeDone
  /\ mapPc = "convert"
  /\ elements.rectangles # <<>>
  /\ \A k \in 1..Len(elements.rectangles) : RectArea(elements.rectangles[k]) = 0
  /\ mapResult.boundsWidth = elements.images[1].displayWidth

\* neither a rectangle nor an image
C18_FailureReached ==
  /\ LargestRectangleModeDone
  /\ elements.rectangles = <<>> /\ elements.images = <<>>
  /\ FailedAtBounds

---------------------------------------------------------------------------
(* C19 *)

\* C19: createRelativeMap never returns success = true with boundsWidth <= 0
\* or boundsHeight <= 0: bounds with max <= min are an error
C19_SuccessHasPositiveBounds ==
  (mapPc = "done" /\ mapResult.success) =>
    /\ mapResult.boundsWidth > 0
    /\ mapResult.boundsHeight > 0

\* the part of C19 that holds: with no text line and no image to bound, the
\* call fails with "No elements found to create relative map"
C19_NoElementsReported ==
  (mapPc # "bounds" /\ BoundsFromElements
     /\ elements.textLines = <<>> /\ elements.images = <<>>) =>
    /\ FailedAtBounds
    /\ mapResult.errorMessage = "No elements found to create relative map"

\* a successful return with bounds of width 0
C19_ZeroWidthReached ==
  /\ mapPc = "done" /\ mapResult.success
  /\ mapResult.boundsWidth = 0
  /\ mapResult.elements # <<>>

---------------------------------------------------------------------------
(* C20 *)

\* a returned result tells failure by value: a message exactly when not
\* successful
StripByValue == pc = "done" => (result.success <=> result.errorMessage = <<>>)

MapByValue == mapPc = "done" => (mapResult.success <=> mapResult.errorMessage = "")

\* C20: every return of stripBleedMarks (every variant) and of
\* createRelativeMap with a non-empty errorMessage has success = false, and
\* every return with success = false has a non-empty errorMessage
C20_FailureByValue == StripByValue /\ MapByValue

\* the part of C20 that holds of stripBleedMarks in OCRAnalysis.cpp
C20_StripFailureByValue == StripByValue

\* the part of C20 that holds of createRelativeMap, the caught exception
\* included
C20_MapFailureByValue == MapByValue

\* the simplified variant has returned "too small" with success = true
C20_TooSmallSuccessReached ==
  /\ pc = "done"
  /\ result.success
  /\ MessageHead(result) = "Detected crop box is too small ("
  /\ result.pageWidth < 100

---------------------------------------------------------------------------
(* sortByPosition *)

\* RenderedElement: the fields sortByPosition reads, and the text
RenderedElement(x, y, t) == [pixelX |-> x, pixelY |-> y, text |-> t]

Y_TOLERANCE == 5

\* the comparator handed to std::sort: a is ordered before b
Before(a, b) ==
  IF Abs(a.pixelY - b.pixelY) <= Y_TOLERANCE
  THEN a.pixelX < b.pixelX
  ELSE a.pixelY < b.pixelY

\* neither is ordered before the other
Equivalent(a, b) == ~Before(a, b) /\ ~Before(b, a)

\* what std::sort requires of its comparator on the elements it is given
StrictWeakOrderingOn(S) ==
  /\ \A a \in S : ~Before(a, a)
  /\ \A a, b, c \in S : Before(a, b) /\ Before(b, c) => Before(a, c)
  /\ \A a, b, c \in S : Equivalent(a, b) /\ Equivalent(b, c) => Equivalent(a, c)

ElementsOf(es) == {es[k] : k \in 1..Len(es)}

\* every rearrangement of es
Rearrangements(es) ==
  {[k \in 1..Len(es) |-> es[p[k]]] : p \in Permutations(1..Len(es))}

\* no element is ordered before one that precedes it
SortedBy(es) ==
  \A i, j \in 1..Len(es) : i < j => ~Before(es[j], es[i])

\* std::sort(begin, end, comp): with a strict weak ordering the result is a
\* rearrangement sorted by comp (equivalent elements in any order); with any
\* other comparator the behaviour is undefined, and for the short ranges
\* sorted here (insertion sort) every rearrangement is a possible result
StdSort(es) ==
  IF StrictWeakOrderingOn(ElementsOf(es))
  THEN {r \in Rearrangements(es) : SortedBy(r)}
  ELSE Rearrangements(es)

MaxElements == 3

\* pixel positions of rendered elements: rows 4 pixels apart, columns 5
PixelXs == {0, 5, 10}
PixelYs == {0, 4, 8}

ElementPool == {RenderedElement(x, y, "") : x \in PixelXs, y \in PixelYs}

\* the elements of test_sort_elements.cpp, in the order they are pushed
TestElements ==
  << RenderedElement(250, 100, "test"), RenderedElement(100, 50, "Hello"),
     RenderedElement(250, 150, "text"), RenderedElement(300, 50, "World"),
     RenderedElement(50, 100, "This"),  RenderedElement(100, 150, "Sorted"),
     RenderedElement(150, 100, "is"),   RenderedElement(200, 100, "a") >>

ElementLists ==
  UNION {[1..n -> ElementPool] : n \in 0..MaxElements} \cup {TestElements}

SortInit ==
  /\ StripIdle
  /\ MapIdle
  /\ analyzers = <<>>
  /\ engines = <<>>
  /\ ocrCall = NoCall
  /\ nullDeref = FALSE
  /\ sortPc = "call"
  /\ rendered \in ElementLists
  /\ unsorted = rendered

sortByPosition ==
  /\ sortPc = "call"
  /\ rendered' \in StdSort(rendered)
  /\ sortPc' = "done"
  /\ UNCHANGED <<unsorted, stripVars, mapVars, ocrVars>>

SortNext == sortByPosition

SortSpec == SortInit /\ [][SortNext]_vars

---------------------------------------------------------------------------
(* C21 *)

\* a stands correctly before b: on the same row (Y within the tolerance)
\* not to its right, otherwise above it
RowOrdered(a, b) ==
  IF Abs(a.pixelY - b.pixelY) <= Y_TOLERANCE
  THEN a.pixelX <= b.pixelX
  ELSE a.pixelY < b.pixelY

IsRearrangement(r, es) ==
  /\ Len(r) = Len(es)
  /\ \E p \in Permutations(1..Len(es)) : \A k \in 1..Len(es) : r[k] = es[p[k]]

\* C21: after sortByPosition, every element a placed before an element b has
\* a.pixelX <= b.pixelX when their pixelY differ by at most 5 and
\* a.pixelY < b.pixelY otherwise, and the result is a permutation of the input
C21_SortedByRows ==
  sortPc = "done" =>
    /\ \A i, j \in 1..Len(rendered) :
         i < j => RowOrdered(rendered[i], rendered[j])
    /\ IsRearrangement(rendered, unsorted)

\* the part of C21 that holds: inputs on which the comparator is a strict
\* weak ordering come out ordered by rows, rearranged
C21_SortedWhenOrdering ==
  sortPc = "done" /\ StrictWeakOrderingOn(ElementsOf(unsorted)) =>
    /\ \A i, j \in 1..Len(rendered) :
         i < j => RowOrdered(rendered[i], rendered[j])
    /\ IsRearrangement(rendered, unsorted)

Texts(es) == [k \in 1..Len(es) |-> es[k].text]

\* the words of the test come out as
\* "Hello World / This is a test / Sorted text"
C21_TestSorted ==
  sortPc = "done" /\ unsorted = TestElements =>
    Texts(rendered) =
      <<"Hello", "World", "This", "is", "a", "test", "Sorted", "text">>

C21_TestReached == sortPc = "done" /\ unsorted = TestElements

\* the three elements no order of which satisfies C21
CyclicTriple ==
  {RenderedElement(10, 0, ""), RenderedElement(5, 4, ""), RenderedElement(0, 8, "")}

C21_CycleSorted == sortPc = "done" /\ ElementsOf(unsorted) = CyclicTriple

---------------------------------------------------------------------------
(* C28 *)

\* C28: the comparator of sortByPosition is a strict weak ordering: among
\* the elements given to std::sort there are no a, b, c with a before b,
\* b before c and c before a
C28_StrictWeakOrdering ==
  sortPc = "call" =>
    /\ StrictWeakOrderingOn(ElementsOf(rendered))
    /\ \A a, b, c \in ElementsOf(rendered) :
         ~(Before(a, b) /\ Before(b, c) /\ Before(c, a))

\* three elements ordered in a cycle are handed to std::sort
C28_CycleReached ==
  /\ sortPc = "call"
  /\ \E a, b, c \in ElementsOf(rendered) :
       Before(a, b) /\ Before(b, c) /\ Before(c, a)

---------------------------------------------------------------------------
(* OCRAnalysis: the engine's life cycle *)

\* OCRConfig: the fields the life cycle reads
OCRConfig(l, m) == [language |-> l, pageSegMode |-> m]

\* language codes a caller passes, and those whose data Init finds
Languages == {"eng", "xx"}
Installed == {"eng"}

PageSegModes == {"PSM_AUTO", "PSM_SINGLE_BLOCK"}

Configs == {OCRConfig(l, m) : l \in Languages, m \in PageSegModes}

\* a null std::unique_ptr<tesseract::TessBaseAPI>
Null == 0

\* a tesseract::TessBaseAPI as make_unique leaves it; inits counts the calls
\* of Init
NewEngine ==
  [initialized |-> FALSE, language |-> "", pageSegMode |-> "PSM_SINGLE_BLOCK",
   inits |-> 0]

\* TessBaseAPI::Init: 0 and an initialised engine when the language data is
\* found, otherwise -1 and an engine that is not initialised
TessInit(e, l) ==
  IF l \in Installed
  THEN [e EXCEPT !.initialized = TRUE, !.language = l, !.inits = @ + 1]
  ELSE [e EXCEPT !.initialized = FALSE, !.inits = @ + 1]

\* TessBaseAPI::End
TessEnd(e) == [e EXCEPT !.initialized = FALSE]

\* what a member function leaves: the object, the engines, the value
\* returned, the message of an OCRResult, the engine functions called, and
\* whether a null m_tesseract was dereferenced
Outcome(a, es, ret, msg, calls, null) ==
  [a |-> a, es |-> es, returned |-> ret, message |-> msg, engineCalls |-> calls,
   null |-> null]

\* m_tesseract-> on a null pointer
NullDereference(a, es, calls) == Outcome(a, es, "", "", calls, TRUE)

\* OCRAnalysis::initialize
initializeOn(a, es) ==
  IF a.m_initialized THEN Outcome(a, es, "true", "", <<>>, FALSE)
  ELSE IF a.m_tesseract = Null THEN NullDereference(a, es, <<>>)
  ELSE LET k == a.m_tesseract
           e == TessInit(es[k], a.m_config.language)
       IN  IF ~e.initialized
           THEN Outcome(a, [es EXCEPT ![k] = e], "false", "", <<"Init">>, FALSE)
           ELSE Outcome([a EXCEPT !.m_initialized = TRUE],
                        [es EXCEPT ![k] = [e EXCEPT !.pageSegMode = a.m_config.pageSegMode]],
                        "true", "", <<"Init", "SetPageSegMode">>, FALSE)

\* the engine of a is ended and a.m_initialized cleared
Ended(a, es) ==
  [a |-> [a EXCEPT !.m_initialized = FALSE],
   es |-> [es EXCEPT ![a.m_tesseract] = TessEnd(@)]]

\* OCRAnalysis::setConfig
setConfigOn_StaysInitialized(a, es, c) ==
  Outcome([a EXCEPT !.m_config = c], es, "", "", <<>>, FALSE)

setConfigOn(a, es, c) ==
  LET a1 == [a EXCEPT !.m_config = c]
  IN  IF ~a.m_initialized THEN Outcome(a1, es, "", "", <<>>, FALSE)
      ELSE IF a.m_tesseract = Null THEN NullDereference(a1, es, <<>>)
      ELSE Outcome(Ended(a1, es).a, Ended(a1, es).es, "", "", <<"End">>, FALSE)

\* OCRAnalysis::setLanguage
setLanguageOn(a, es, l) ==
  LET a1 == [a EXCEPT !.m_config.language = l]
  IN  IF ~a.m_initialized THEN Outcome(a1, es, "true", "", <<>>, FALSE)
      ELSE IF a.m_tesseract = Null THEN NullDereference(a1, es, <<>>)
      ELSE LET r == initializeOn(Ended(a1, es).a, Ended(a1, es).es)
           IN  [r EXCEPT !.engineCalls = <<"End">> \o @]

\* OCRAnalysis::setPageSegMode
setPageSegModeOn(a, es, m) ==
  LET a1 == [a EXCEPT !.m_config.pageSegMode = m]
  IN  IF ~a.m_initialized THEN Outcome(a1, es, "", "", <<>>, FALSE)
      ELSE IF a.m_tesseract = Null THEN NullDereference(a1, es, <<>>)
      ELSE Outcome(a1, [es EXCEPT ![a.m_tesseract].pageSegMode = m], "", "",
                   <<"SetPageSegMode">>, FALSE)

NotInitializedMessage == "OCR engine not initialized. Call initialize() first."

\* the images handed to analyzeImage(const cv::Mat &)
Mats == {"empty", "page"}

\* OCRAnalysis::analyzeImage(const cv::Mat &): the results it may return
analyzeImageOn(a, es, image) ==
  IF ~a.m_initialized
  THEN {Outcome(a, es, "failure", NotInitializedMessage, <<>>, FALSE)}
  ELSE IF image = "empty"
  THEN {Outcome(a, es, "failure", "Input image is empty", <<>>, FALSE)}
  ELSE IF a.m_tesseract = Null THEN {NullDereference(a, es, <<>>)}
  ELSE {Outcome(a, es, "success", "", <<"SetImage", "Recognize", "GetUTF8Text">>, FALSE),
        Outcome(a, es, "failure", "OCR analysis failed: ", <<"SetImage">>, FALSE)}

MaxInits == 2
MaxAnalyzers == 2

\* a call of op on object i returns with outcome r
Returns(i, op, r) ==
  /\ ~nullDeref
  /\ \A k \in DOMAIN r.es : r.es[k].inits <= MaxInits
  /\ analyzers' = [analyzers EXCEPT ![i] = r.a]
  /\ engines' = r.es
  /\ ocrCall' = [op |-> op, obj |-> i, returned |-> r.returned,
                 message |-> r.message, engineCalls |-> r.engineCalls]
  /\ nullDeref' = r.null
  /\ UNCHANGED <<stripVars, mapVars, sortVars>>

initialize(i) == Returns(i, "initialize", initializeOn(analyzers[i], engines))

setConfig(i, c) == Returns(i, "setConfig", setConfigOn(analyzers[i], engines, c))

setLanguage(i, l) ==
  Returns(i, "setLanguage", setLanguageOn(analyzers[i], engines, l))

setPageSegMode(i, m) ==
  Returns(i, "setPageSegMode", setPageSegModeOn(analyzers[i], engines, m))

analyzeImage(i, image) ==
  \E r \in analyzeImageOn(analyzers[i], engines, image) :
    Returns(i, "analyzeImage", r)

\* OCRAnalysis::OCRAnalysis(const OCRConfig &)
Constructed(c, k) == [m_tesseract |-> k, m_config |-> c, m_initialized |-> FALSE]

\* an object after std::move took its members: the pointer is null, the
\* strings of m_config are valid but unspecified
MovedFrom(a) ==
  {[m_tesseract |-> Null, m_config |-> [a.m_config EXCEPT !.language = l],
    m_initialized |-> FALSE] : l \in {a.m_config.language, ""}}

Construct(c) ==
  /\ ~nullDeref
  /\ Len(analyzers) < MaxAnalyzers
  /\ engines' = Append(engines, NewEngine)
  /\ analyzers' = Append(analyzers, Constructed(c, Len(engines) + 1))
  /\ ocrCall' = [NoCall EXCEPT !.op = "OCRAnalysis", !.obj = Len(analyzers) + 1]
  /\ UNCHANGED <<nullDeref, stripVars, mapVars, sortVars>>

\* OCRAnalysis::OCRAnalysis(OCRAnalysis &&other)
MoveConstruct(j) ==
  /\ ~nullDeref
  /\ Len(analyzers) < MaxAnalyzers
  /\ \E from \in MovedFrom(analyzers[j]) :
       analyzers' = Append([analyzers EXCEPT ![j] = from],
                           [m_tesseract |-> analyzers[j].m_tesseract,
                            m_config |-> analyzers[j].m_config,
                            m_initialized |-> analyzers[j].m_initialized])
  /\ ocrCall' = [NoCall EXCEPT !.op = "OCRAnalysis(&&)", !.obj = Len(analyzers) + 1]
  /\ UNCHANGED <<engines, nullDeref, stripVars, mapVars, sortVars>>

\* OCRAnalysis::operator=(OCRAnalysis &&other)
MoveAssign(i, j) ==
  /\ ~nullDeref
  /\ IF i = j
     THEN UNCHANGED <<analyzers, engines>>
     ELSE /\ engines' = IF analyzers[i].m_tesseract = Null THEN engines
                        ELSE [engines EXCEPT ![analyzers[i].m_tesseract] = TessEnd(@)]
          /\ \E from \in MovedFrom(analyzers[j]) :
               analyzers' = [analyzers EXCEPT
                               ![i] = [m_tesseract |-> analyzers[j].m_tesseract,
                                       m_config |-> analyzers[j].m_config,
                                       m_initialized |-> analyzers[j].m_initialized],
                               ![j] = from]
  /\ ocrCall' = [NoCall EXCEPT
                   !.op = "operator=(&&)", !.obj = i,
                   !.engineCalls = IF i # j /\ analyzers[i].m_tesseract # Null
                                   THEN <<"End">> ELSE <<>>]
  /\ UNCHANGED <<nullDeref, stripVars, mapVars, sortVars>>

Objects == DOMAIN analyzers

\* one analyzer, constructed, and the calls of initialize, setConfig,
\* setLanguage and analyzeImage on it
OcrInit ==
  /\ StripIdle
  /\ MapIdle
  /\ sortPc = "idle"
  /\ rendered = <<>>
  /\ unsorted = <<>>
  /\ \E c \in Configs : analyzers = <<Constructed(c, 1)>>
  /\ engines = <<NewEngine>>
  /\ ocrCall = [NoCall EXCEPT !.op = "OCRAnalysis", !.obj = 1]
  /\ nullDeref = FALSE

OcrNext ==
  \/ \E i \in Objects : initialize(i)
  \/ \E i \in Objects, c \in Configs : setConfig(i, c)
  \/ \E i \in Objects, l \in Languages : setLanguage(i, l)
  \/ \E i \in Objects, image \in Mats : analyzeImage(i, image)

OcrSpec == OcrInit /\ [][OcrNext]_vars

\* any objects, constructed, moved and called
MoveInit == StripIdle /\ MapIdle /\ OtherIdle

MoveNext ==
  \/ \E c \in Configs : Construct(c)
  \/ \E j \in Objects : MoveConstruct(j)
  \/ \E i, j \in Objects : MoveAssign(i, j)
  \/ \E i \in Objects : initialize(i)
  \/ \E i \in Objects, c \in Configs : setConfig(i, c)
  \/ \E i \in Objects, l \in Languages : setLanguage(i, l)
  \/ \E i \in Objects, m \in PageSegModes : setPageSegMode(i, m)
  \/ \E i \in Objects, image \in Mats : analyzeImage(i, image)

MoveSpec == MoveInit /\ [][MoveNext]_vars

---------------------------------------------------------------------------
(* C22 *)

isInitialized(i) == analyzers[i].m_initialized

\* the step is a call of op
Called(op) == ocrCall'.op = op

\* C22: in any sequence of initialize, setConfig, setLanguage and
\* analyzeImage calls: after setConfig returns isInitialized() is false;
\* while it is false every analyzeImage fails with "OCR engine not
\* initialized" without touching the engine, and it stays false until an
\* initialize() returns true; initialize() on an initialized analyzer
\* returns true without re-initializing the engine
C22_ConfigChangeRequiresInitialize ==
  [][/\ Called("setConfig") => ~isInitialized(1)'
     /\ ~isInitialized(1) /\ Called("analyzeImage") =>
          /\ ocrCall'.returned = "failure"
          /\ ocrCall'.message = NotInitializedMessage
          /\ ocrCall'.engineCalls = <<>>
          /\ engines' = engines
     /\ ~isInitialized(1) /\ isInitialized(1)' =>
          Called("initialize") /\ ocrCall'.returned = "true"
     /\ isInitialized(1) /\ Called("initialize") =>
          /\ ocrCall'.returned = "true"
          /\ ocrCall'.engineCalls = <<>>
          /\ engines' = engines
          /\ isInitialized(1)']_vars

\* analyzeImage was refused on an analyzer whose engine had been initialised
\* and was ended by setConfig (the language is one Init accepts, which
\* setLanguage would have initialised again)
C22_Witness ==
  /\ analyzers # <<>>
  /\ ocrCall.op = "analyzeImage"
  /\ ocrCall.message = NotInitializedMessage
  /\ engines[1].inits = 1
  /\ ~engines[1].initialized
  /\ engines[1].language = "eng"
  /\ analyzers[1].m_config.language = "eng"

\* initialize() returned true on an analyzer that was already initialized
C22_InitializedAgainReached ==
  /\ analyzers # <<>>
  /\ ocrCall.op = "initialize"
  /\ ocrCall.engineCalls = <<>>
  /\ ocrCall.returned = "true"

---------------------------------------------------------------------------
(* C30 *)

\* m_initialized only with an owned engine whose last Init succeeded and
\* that was not ended since
InitializedOwnsLiveEngine ==
  \A i \in Objects :
    analyzers[i].m_initialized =>
      /\ analyzers[i].m_tesseract # Null
      /\ engines[analyzers[i].m_tesseract].initialized

\* C30: in every state reached through construction, move construction, move
\* assignment, initialize, setConfig, setLanguage and setPageSegMode no
\* public method dereferences a null Tesseract engine pointer (initialize()
\* on a moved-from analyzer included), and m_initialized is true only while
\* the object owns an engine whose last Init succeeded with no End() since
C30_NoNullEngineDereference == ~nullDeref /\ InitializedOwnsLiveEngine

\* the part of C30 that holds
C30_InitializedOwnsLiveEngine == InitializedOwnsLiveEngine

\* initialize() went through the null m_tesseract of a moved-from analyzer
C30_MovedFromInitializeReached ==
  /\ nullDeref
  /\ ocrCall.op = "initialize"
  /\ analyzers[ocrCall.obj].m_tesseract = Null

---------------------------------------------------------------------------
(* C29 *)

\* Step 3 has run to its end
AlignmentReturned == AlignmentDone /\ ~Thrown

\* rect lies inside the image and is more than 10 x 10
InsideImage(rect, image) ==
  /\ rect.x >= 0
  /\ rect.y >= 0
  /\ rect.width > 10
  /\ rect.height > 10
  /\ rect.x + rect.width <= image.cols
  /\ rect.y + rect.height <= image.rows

\* the least-squares path or the single-match sweep was taken
CropAttempted ==
  \/ Len(matches) >= 2 /\ solved.value = TRUE
  \/ Len(matches) = 1

\* C29: whenever createRelativeMap crops the target image (least-squares
\* path and single-match sweep) the rectangle applied has x >= 0, y >= 0,
\* width > 10, height > 10, x + width <= image width and y + height <= image
\* height; in every other case the full image is used
C29_CropInsideImage ==
  AlignmentReturned =>
    IF canvas.kind = "crop"
    THEN /\ CropAttempted
         /\ canvas.rect = cropRect
         /\ InsideImage(cropRect, targetImage)
    ELSE canvas = FullImage(targetImage)

\* the least-squares rectangle reached over the image's edge and was cropped
\* after clamping
C29_Witness ==
  /\ AlignmentReturned
  /\ canvas.kind = "crop"
  /\ Len(matches) >= 2
  /\ cropRect # solveCropRectFromMatches(matches, DefaultRect).cropRect

\* the single-match sweep cropped
C29_SweepCropReached ==
  AlignmentReturned /\ canvas.kind = "crop" /\ Len(matches) = 1

\* the sweep found nothing to crop: "Single-match fallback failed"
C29_SweepFailedReached ==
  AlignmentReturned /\ canvas.kind = "full" /\ Len(matches) = 1

\* the solved rectangle was too small after clamping
C29_TooSmallAfterClampReached ==
  AlignmentReturned /\ canvas.kind = "full" /\ Len(matches) >= 2
  /\ solved.value = TRUE

\* the solver failed with 2 or more matches: the full image
C29_UnsolvedReached ==
  AlignmentReturned /\ canvas.kind = "full" /\ Len(matches) >= 2
  /\ solved.value = FALSE

---------------------------------------------------------------------------
(* C23 *)

\* the rectangles the Reconstructor appended to the extracted ones
SyntheticRects ==
  {allElements.rectangles[k] :
     k \in (Len(rawRects) + 1)..Len(allElements.rectangles)}

\* h spans the side from x to x + width, v the side from y to y + height,
\* within the tolerance
SpansWidth(h, r) ==
  LineMinX(h) <= r.x + spanTolerance /\ LineMaxX(h) >= r.x + r.width - spanTolerance

SpansHeight(v, r) ==
  LineMinY(v) <= r.y + spanTolerance /\ LineMaxY(v) >= r.y + r.height - spanTolerance

\* r is bounded by two horizontal and two vertical lines of its page, each
\* spanning its side
BoundedByLines(r) ==
  \E i1, i2, j1, j2 \in 1..Len(rawLines) :
    LET h1 == rawLines[i1]
        h2 == rawLines[i2]
        v1 == rawLines[j1]
        v2 == rawLines[j2]
    IN  /\ i1 # i2 /\ j1 # j2
        /\ IsHorizontalLine(h1) /\ IsHorizontalLine(h2)
        /\ IsVerticalLine(v1) /\ IsVerticalLine(v2)
        /\ {h1.pageNumber, h2.pageNumber, v1.pageNumber, v2.pageNumber} = {r.pageNumber}
        /\ MidY(h1) = r.y /\ MidY(h2) = r.y + r.height
        /\ MidX(v1) = r.x /\ MidX(v2) = r.x + r.width
        /\ SpansWidth(h1, r) /\ SpansWidth(h2, r)
        /\ SpansHeight(v1, r) /\ SpansHeight(v2, r)

\* C23: every synthetic rectangle appended by the Rectangle Reconstructor
\* has width > 10 and height > 10 and is bounded by two horizontal and two
\* vertical lines of the same page, each spanning its side within the 10pt
\* tolerance; for every line set, one of exactly 2 horizontal and 2 vertical
\* lines included
C23_SyntheticRectsBounded ==
  Extracted =>
    \A r \in SyntheticRects :
      r.width > minGap /\ r.height > minGap /\ BoundedByLines(r)

\* exactly 2 horizontal and 2 vertical lines were extracted
TwoAndTwo ==
  /\ Len(SelectSeq(rawLines, IsHorizontalLine)) = 2
  /\ Len(SelectSeq(rawLines, IsVerticalLine)) = 2

\* what the general search keeps: with any other number of lines the
\* synthetic rectangles are bounded by spanning lines and at least 10 wide
\* and high
C23_GeneralSearchBounded ==
  Extracted /\ ~TwoAndTwo =>
    \A r \in SyntheticRects :
      r.width >= minGap /\ r.height >= minGap /\ BoundedByLines(r)

\* the simple case appended a rectangle of no height from two crop marks
C23_FlatRectReached ==
  /\ Extracted /\ TwoAndTwo
  /\ \E r \in SyntheticRects : r.height = 0 /\ ~BoundedByLines(r)

\* the general search appended a rectangle exactly 10 high
C23_TenHighReached ==
  /\ Extracted /\ ~TwoAndTwo
  /\ \E r \in SyntheticRects : r.height = minGap

---------------------------------------------------------------------------
(* C24 *)

\* the same segment with its endpoints given in the other order
Swapped(l) == [l EXCEPT !.x1 = l.x2, !.y1 = l.y2, !.x2 = l.x1, !.y2 = l.y1]

\* C24: the angle of each line is normalised to [0, 180), so swapping the
\* endpoints of either line of a pair never changes whether the pair passes
\* the 5-degree perpendicularity test or is recorded as a candidate
C24_EndpointOrderIrrelevant ==
  Classified =>
    \A i, j \in 1..Len(step1.filteredLines) :
      i < j =>
        LET line1 == step1.filteredLines[i]
            line2 == step1.filteredLines[j]
        IN  \A a \in {line1, Swapped(line1)}, b \in {line2, Swapped(line2)} :
              /\ LineAngle(a) \in 0..(180 * Deg - 1)
              /\ IsPerpendicular(a, b) = IsPerpendicular(line1, line2)
              /\ IsCropMarkPair(a, b) = IsCropMarkPair(line1, line2)

AxisParallel(l) == l.x1 = l.x2 \/ l.y1 = l.y2

\* the part of C24 that holds: pairs of axis-parallel lines
C24_AxisParallelIrrelevant ==
  Classified =>
    \A i, j \in 1..Len(step1.filteredLines) :
      i < j =>
        LET line1 == step1.filteredLines[i]
            line2 == step1.filteredLines[j]
        IN  AxisParallel(line1) /\ AxisParallel(line2) =>
              \A a \in {line1, Swapped(line1)}, b \in {line2, Swapped(line2)} :
                /\ IsPerpendicular(a, b) = IsPerpendicular(line1, line2)
                /\ IsCropMarkPair(a, b) = IsCropMarkPair(line1, line2)

\* the search has recorded a pair of diagonals that it would not record with
\* the endpoints of one of them swapped
C24_SwapDropsPairReached ==
  /\ Searched
  /\ \E i, j \in 1..Len(step1.filteredLines) :
       /\ i < j
       /\ IsCropMarkPair(step1.filteredLines[i], step1.filteredLines[j])
       /\ ~IsCropMarkPair(step1.filteredLines[i], Swapped(step1.filteredLines[j]))

---------------------------------------------------------------------------
(* C25 *)

\* linesBoundingBox of the extracted elements
InteriorBox ==
  Box(allElements.linesBoundingBoxX, allElements.linesBoundingBoxY,
      allElements.linesBoundingBoxWidth, allElements.linesBoundingBoxHeight)

TooFewCorners == Len(CropMarkCorners(rawLines)) < 4

TooFewGroups ==
  \/ Cardinality(DOMAIN CornerCounts(rawLines, 1)) < 2
  \/ Cardinality(DOMAIN CornerCounts(rawLines, 2)) < 2

\* C25: when the corner detection of extractPDFElements gives no crop box
\* (fewer than 4 intersection points, or fewer than 2 distinct X or Y
\* groups), linesBoundingBox is the line bounding box of extractLinesFromPDF
C25_FallsBackToLineBox ==
  Extracted /\ (TooFewCorners \/ TooFewGroups) =>
    InteriorBox = LineBoundingBox(rawLines)

\* the part of C25 that holds: 4 or more points in fewer than 2 groups
C25_FewGroupsFallBack ==
  Extracted /\ ~TooFewCorners /\ TooFewGroups =>
    InteriorBox = LineBoundingBox(rawLines)

C25_FewGroupsReached ==
  /\ Extracted /\ ~TooFewCorners /\ TooFewGroups
  /\ InteriorBox = Box(100 * Pt, 100 * Pt, 0, 30 * Pt)

\* three crop marks: the line bounding box is (10,10) 480 x 680 and
\* linesBoundingBox is left at 0
C25_ThreeMarksReached ==
  /\ Extracted
  /\ Len(CropMarkCorners(rawLines)) = 3
  /\ LineBoundingBox(rawLines) = Box(10 * Pt, 10 * Pt, 480 * Pt, 680 * Pt)
  /\ InteriorBox = Box(0, 0, 0, 0)

---------------------------------------------------------------------------
(* C26 *)

\* the statistics of a PDFElements agree with its vectors
CountsMatch(e) ==
  /\ e.rectangleCount = Len(e.rectangles)
  /\ e.graphicLineCount = Len(e.graphicLines)

\* C26: every PDFElements returned with success = true by extractPDFElements
\* or by stripBleedMarks has rectangleCount = rectangles.size() and
\* graphicLineCount = graphicLines.size(), synthetic rectangles included
C26_CountsMatchSizes ==
  /\ Extracted /\ allElements.success => CountsMatch(allElements)
  /\ pc = "done" /\ result.success => CountsMatch(result)

\* the parts of C26 that hold: the result of stripBleedMarks, the line count
\* of extractPDFElements, and its rectangle count when no rectangle was
\* reconstructed from lines
C26_StripCountsMatch ==
  /\ pc = "done" /\ result.success => CountsMatch(result)
  /\ Extracted /\ allElements.success =>
       /\ allElements.graphicLineCount = Len(allElements.graphicLines)
       /\ SyntheticRects = {} => CountsMatch(allElements)

\* stripBleedMarks removed rectangles and counted those it kept
C26_StripCountedReached ==
  /\ pc = "done" /\ result.success
  /\ Len(allElements.rectangles) > Len(result.rectangles)
  /\ result.rectangleCount = Len(result.rectangles)
  /\ result.rectangleCount > 0

\* the frame of four lines: one rectangle returned, rectangleCount 0
C26_SyntheticUncountedReached ==
  /\ Extracted /\ allElements.success
  /\ rawRects = <<>>
  /\ Len(allElements.rectangles) = 1
  /\ allElements.rectangleCount = 0

---------------------------------------------------------------------------
(* C27 *)

\* what STEP 1 removes: the rectangles and the lines themselves
Removed(s1, all) ==
  [rectangles |-> {all.rectangles[k] : k \in s1.rectanglesToRemove},
   lines |-> {all.graphicLines[k] : k \in s1.linesToRemove}]

\* STEP 1 on the same elements with the rectangles supplied as rects
RemovedFor(rects) ==
  LET all == [allElements EXCEPT !.rectangles = rects]
  IN  Removed(RemoveBleedMarks(all), all)

\* every two rectangles of every group of s1 have Y origins within 2pt
ClustersWithin2pt(s1, rects) ==
  \A g \in 1..Len(s1.rectangleGroups) :
    \A i, j \in SeqRange(s1.rectangleGroups[g]) :
      Abs(rects[i].y - rects[j].y) <= yTolerance

\* C27: the rectangles and lines STEP 1 of stripBleedMarks removes are the
\* same for every order of the rectangle list, and two rectangles of one
\* group have Y origins within 2pt of each other
C27_OrderIndependentClusters ==
  Classified =>
    /\ \A rects \in Rearrangements(allElements.rectangles) :
         RemovedFor(rects) = Removed(step1, allElements)
    /\ ClustersWithin2pt(step1, allElements.rectangles)

\* rectangles whose Y origins are within the tolerance have the same Y origin
ExactRows(rects) ==
  \A i, j \in 1..Len(rects) : SameY(rects[i], rects[j]) => rects[i].y = rects[j].y

\* the part of C27 that holds: every rectangle of a group is within the
\* tolerance of the group's first rectangle, and the order is irrelevant
\* when the rows are exact
C27_AnchoredClusters ==
  Classified =>
    /\ \A g \in 1..Len(step1.rectangleGroups) :
         \A j \in SeqRange(step1.rectangleGroups[g]) :
           SameY(allElements.rectangles[step1.rectangleGroups[g][1]],
                 allElements.rectangles[j])
    /\ ExactRows(allElements.rectangles) =>
         \A rects \in Rearrangements(allElements.rectangles) :
           RemovedFor(rects) = Removed(step1, allElements)

\* Y origins 301.5, 300, 303 in this order: one group of three, whose
\* outer two are 3pt apart; in the order 300, 301.5, 303 the third is kept
C27_ChainGroupedReached ==
  /\ Classified
  /\ Len(allElements.rectangles) = 3
  /\ allElements.rectangles[1] = ChainRects[2]
  /\ step1.rectangleGroups = << <<1, 2, 3>> >>
  /\ ~ClustersWithin2pt(step1, allElements.rectangles)
  /\ RemovedFor(ChainRects).rectangles = {ChainRects[1], ChainRects[2]}

\* Y origins 50 and 49: removed in this order, skipped as near the edge in
\* the other
C27_EdgeByFirstReached ==
  /\ Classified
  /\ allElements.rectangles = <<PDFRectangle(330, 50, 10, 10), PDFRectangle(300, 49, 10, 10)>>
  /\ step1.rectanglesToRemove = {1, 2}
  /\ RemovedFor(Reverse(allElements.rectangles)).rectangles = {}

C27_ExactRowsRemovedReached ==
  /\ Classified
  /\ ExactRows(allElements.rectangles)
  /\ Len(allElements.rectangles) = 3
  /\ Cardinality(step1.rectanglesToRemove) = 2

====
